---- MODULE Spec2Model ----
(***************************************************************************)
(* Reconciliation of container departure times: the class variant          *)
(* (ContainerTimeUpdater, actualizar_horas_contenedores.py) and the auto    *)
(* variant (update_export_times, actualizar_horas_contenedores_auto.py).    *)
(*                                                                         *)
(* Text is modelled as a sequence of one-character strings, so that        *)
(* trimming, case folding, regular-expression search and formatting are    *)
(* computed character by character, as the code computes them.  A          *)
(* spreadsheet cell is a record tagged with its Python type.               *)
(***************************************************************************)
EXTENDS Integers, Sequences, FiniteSets, TLC

(***************************************************************************)
(* Characters and Python's str operations                                  *)
(***************************************************************************)
Digits == <<"0", "1", "2", "3", "4", "5", "6", "7", "8", "9">>

DigitSet == {"0", "1", "2", "3", "4", "5", "6", "7", "8", "9"}

\* the upper-case letter of each lower-case ASCII letter
ToUpper ==
    [a |-> "A", b |-> "B", c |-> "C", d |-> "D", e |-> "E", f |-> "F", g |-> "G",
     h |-> "H", i |-> "I", j |-> "J", k |-> "K", l |-> "L", m |-> "M", n |-> "N",
     o |-> "O", p |-> "P", q |-> "Q", r |-> "R", s |-> "S", t |-> "T", u |-> "U",
     v |-> "V", w |-> "W", x |-> "X", y |-> "Y", z |-> "Z"]

\* the lower-case letter of each upper-case ASCII letter
ToLower ==
    [A |-> "a", B |-> "b", C |-> "c", D |-> "d", E |-> "e", F |-> "f", G |-> "g",
     H |-> "h", I |-> "i", J |-> "j", K |-> "k", L |-> "l", M |-> "m", N |-> "n",
     O |-> "o", P |-> "p", Q |-> "q", R |-> "r", S |-> "s", T |-> "t", U |-> "u",
     V |-> "v", W |-> "w", X |-> "x", Y |-> "y", Z |-> "z"]

IsDigit(c) == c \in DigitSet

DigitVal(c) == CHOOSE n \in 0..9 : Digits[n + 1] = c

IsUpperLetter(c) == c \in DOMAIN ToLower

IsLowerLetter(c) == c \in DOMAIN ToUpper

\* the whitespace str.strip() removes
IsSpace(c) == c \in {" ", "\t", "\n"}

UpperChar(c) ==
    IF c \in DOMAIN ToUpper THEN ToUpper[c] ELSE IF c = "ñ" THEN "Ñ" ELSE c

\* the upper case of one character; it has two characters for "ß"
UpperChars(c) == IF c = "ß" THEN <<"S", "S">> ELSE <<UpperChar(c)>>

LowerChar(c) == IF c \in DOMAIN ToLower THEN ToLower[c] ELSE c

\* str.upper()
RECURSIVE str_upper(_)
str_upper(s) == IF s = <<>> THEN <<>> ELSE UpperChars(Head(s)) \o str_upper(Tail(s))

\* str.lower()
str_lower(s) == [i \in 1..Len(s) |-> LowerChar(s[i])]

SetMin(S) == CHOOSE x \in S : \A y \in S : x <= y

SetMax(S) == CHOOSE x \in S : \A y \in S : y <= x

\* str.strip()
str_strip(s) ==
    LET keep == {i \in 1..Len(s) : ~IsSpace(s[i])}
    IN  IF keep = {} THEN <<>> ELSE SubSeq(s, SetMin(keep), SetMax(keep))

\* sub in s
str_contains(s, sub) ==
    \E i \in 0..(Len(s) - Len(sub)) : \A k \in 1..Len(sub) : s[i + k] = sub[k]

\* f"{n:02d}" for 0 <= n <= 99
Fmt2(n) == <<Digits[(n \div 10) + 1], Digits[(n % 10) + 1]>>

\* f"{n:04d}", the year of str(Timestamp)
Fmt4(n) == Fmt2(n \div 100) \o Fmt2(n % 100)

\* int() of a string of decimal digits; -1 stands for the ValueError of a
\* string that is not one
RECURSIVE DigitsVal(_)
DigitsVal(s) ==
    IF Len(s) = 0 THEN 0
    ELSE 10 * DigitsVal(SubSeq(s, 1, Len(s) - 1)) + DigitVal(s[Len(s)])

py_int(s) ==
    IF Len(s) > 0 /\ \A i \in 1..Len(s) : IsDigit(s[i]) THEN DigitsVal(s) ELSE -1

(***************************************************************************)
(* Cells: what pandas / openpyxl hand to the code                          *)
(***************************************************************************)
Null == [t |-> "null"]

Str(s) == [t |-> "str", v |-> s]

\* datetime.time
TimeOfDay(h, m, s) == [t |-> "time", h |-> h, mi |-> m, s |-> s]

\* datetime / pd.Timestamp
DateTime(y, mo, d, h, m, s) ==
    [t |-> "datetime", y |-> y, mo |-> mo, d |-> d, h |-> h, mi |-> m, s |-> s]

\* datetime.date
Date(y, mo, d) == [t |-> "date", y |-> y, mo |-> mo, d |-> d]

NaT == [t |-> "nat"]

\* a float: repr is str(v), day_millis the float product v * 86400 in
\* thousandths, rounded down
Float(repr, day_millis) == [t |-> "float", repr |-> repr, day_millis |-> day_millis]

pd_isna(cell) == cell.t \in {"null", "nat"}

\* strftime('%H:%M:%S')
strftime_HMS(x) == Fmt2(x.h) \o <<":">> \o Fmt2(x.mi) \o <<":">> \o Fmt2(x.s)

\* strftime('%H:%M')
strftime_HM(x) == Fmt2(x.h) \o <<":">> \o Fmt2(x.mi)

isoformat_date(x) == Fmt4(x.y) \o <<"-">> \o Fmt2(x.mo) \o <<"-">> \o Fmt2(x.d)

\* str(value), as astype(str) and str() give it
py_str(cell) ==
    CASE cell.t = "str" -> cell.v
      [] cell.t = "time" -> strftime_HMS(cell)
      [] cell.t = "datetime" -> isoformat_date(cell) \o <<" ">> \o strftime_HMS(cell)
      [] cell.t = "date" -> isoformat_date(cell)
      [] cell.t = "null" -> <<"n", "a", "n">>
      [] cell.t = "nat" -> <<"N", "a", "T">>
      [] cell.t = "float" -> cell.repr

\* datetime(...).date(), Timestamp.date()
date_of(x) == Date(x.y, x.mo, x.d)

(***************************************************************************)
(* Calendar: datetime(year, month, day)                                    *)
(***************************************************************************)
is_leap(y) == (y % 4 = 0) /\ ((y % 100 # 0) \/ (y % 400 = 0))

\* a calendar whose months all have 31 days
days_in_month_31(y, m) == 31

days_in_month(y, m) ==
    IF m = 2 THEN (IF is_leap(y) THEN 29 ELSE 28)
    ELSE IF m \in {4, 6, 9, 11} THEN 30 ELSE 31

\* whether datetime(y, m, d) is constructed (it raises ValueError otherwise)
datetime_ok(y, m, d) ==
    /\ 1 <= y /\ y <= 9999
    /\ 1 <= m /\ m <= 12
    /\ 1 <= d /\ d <= days_in_month(y, m)

AllDigits(s, from, to) == \A i \in from..to : IsDigit(s[i])

\* int(s[from..to]) for a run of decimal digits
int_at(s, from, to) == DigitsVal(SubSeq(s, from, to))

\* whether s starts with YYYY-MM-DD
is_iso_date(s) ==
    /\ Len(s) >= 10
    /\ AllDigits(s, 1, 4) /\ s[5] = "-" /\ AllDigits(s, 6, 7)
    /\ s[8] = "-" /\ AllDigits(s, 9, 10)

\* whether s continues with " HH:MM:SS" and ends there
is_iso_time(s) ==
    /\ Len(s) = 19 /\ s[11] = " "
    /\ AllDigits(s, 12, 13) /\ s[14] = ":" /\ AllDigits(s, 15, 16)
    /\ s[17] = ":" /\ AllDigits(s, 18, 19)

\* the Timestamp of the fields read, NaT when they name no instant
timestamp_of(y, mo, d, h, mi, sec) ==
    IF datetime_ok(y, mo, d) /\ h <= 23 /\ mi <= 59 /\ sec <= 59
    THEN DateTime(y, mo, d, h, mi, sec)
    ELSE NaT

\* pd.to_datetime(text): ISO "YYYY-MM-DD" and "YYYY-MM-DD HH:MM:SS" parse;
\* every other text of the model's inputs is one pandas cannot parse (NaT
\* under errors='coerce', an exception otherwise)
pd_to_datetime(s) ==
    IF is_iso_date(s) /\ Len(s) = 10
    THEN timestamp_of(int_at(s, 1, 4), int_at(s, 6, 7), int_at(s, 9, 10), 0, 0, 0)
    ELSE IF is_iso_date(s) /\ is_iso_time(s)
    THEN timestamp_of(int_at(s, 1, 4), int_at(s, 6, 7), int_at(s, 9, 10),
                      int_at(s, 12, 13), int_at(s, 15, 16), int_at(s, 18, 19))
    ELSE NaT

(***************************************************************************)
(* Normalizer: ContainerTimeUpdater.normalize_text / normalize_time        *)
(***************************************************************************)
\* re.sub(r'[^A-Z0-9]', '', text)
re_sub_non_alnum(s) == SelectSeq(s, LAMBDA c : IsUpperLetter(c) \/ IsDigit(c))

\* a normalize_text that keeps spaces, hyphens and other punctuation
normalize_text_unstripped(text) ==
    IF pd_isna(text) THEN <<>> ELSE str_upper(str_strip(py_str(text)))

\* a normalize_text whose re.sub removes the first unwanted character only
normalize_text_first_only(text) ==
    IF pd_isna(text) THEN <<>>
    ELSE LET u == str_upper(str_strip(py_str(text)))
             bad == {i \in 1..Len(u) : ~(IsUpperLetter(u[i]) \/ IsDigit(u[i]))}
         IN  IF bad = {} THEN u
             ELSE SubSeq(u, 1, SetMin(bad) - 1) \o SubSeq(u, SetMin(bad) + 1, Len(u))

\* a normalize_text that does not upper-case
normalize_text_no_upper(text) ==
    IF pd_isna(text) THEN <<>> ELSE re_sub_non_alnum(str_strip(py_str(text)))

normalize_text(text) ==
    IF pd_isna(text) THEN <<>>
    ELSE re_sub_non_alnum(str_upper(str_strip(py_str(text))))

\* the patterns with HH:MM ahead of HH:MM:SS
time_patterns_short_first ==
    << [sep |-> ":", groups |-> 2], [sep |-> ":", groups |-> 3],
       [sep |-> ".", groups |-> 3], [sep |-> ".", groups |-> 2] >>

\* The four patterns of normalize_time, in the order of the list: the
\* separator and the number of groups of (\d{1,2})<sep>(\d{2})[<sep>(\d{2})]
time_patterns ==
    << [sep |-> ":", groups |-> 3], [sep |-> ":", groups |-> 2],
       [sep |-> ".", groups |-> 3], [sep |-> ".", groups |-> 2] >>

\* whether (\d{1,2})<sep>(\d{2})... matches at position i with a first
\* group of k digits
re_match_at(s, i, k, p) ==
    /\ i >= 1
    /\ i + k + 3 * (p.groups - 1) - 1 <= Len(s)
    /\ AllDigits(s, i, i + k - 1)
    /\ \A g \in 1..(p.groups - 1) :
          LET q == i + k + 3 * (g - 1)
          IN  s[q] = p.sep /\ IsDigit(s[q + 1]) /\ IsDigit(s[q + 2])

\* the number of digits the greedy first group takes in a match at
\* position i, 0 when the pattern does not match there
re_match_len(s, i, p) ==
    IF re_match_at(s, i, 2, p) THEN 2 ELSE IF re_match_at(s, i, 1, p) THEN 1 ELSE 0

\* match.groups() of the match at position i whose first group has k
\* digits, as integers; minutes_text is group 2 as matched
match_groups(s, i, k, p) ==
    [found |-> TRUE,
     hours |-> int_at(s, i, i + k - 1),
     minutes |-> int_at(s, i + k + 1, i + k + 2),
     seconds |-> IF p.groups > 2 THEN int_at(s, i + k + 4, i + k + 5) ELSE 0,
     minutes_text |-> SubSeq(s, i + k + 1, i + k + 2)]

\* the leftmost of the positions where the pattern matches
leftmost_match(s, p, starts) ==
    IF starts = {} THEN [found |-> FALSE]
    ELSE match_groups(s, SetMin(starts), re_match_len(s, SetMin(starts), p), p)

\* re.search(pattern, s): found = FALSE when there is no match
re_search_time(s, p) ==
    leftmost_match(s, p, {i \in 1..Len(s) : re_match_len(s, i, p) > 0})

\* the loop over time_patterns from pattern n on: the first pattern whose
\* first match is in range gives the result; <<>> when none does
RECURSIVE try_time_patterns(_, _)
RECURSIVE time_of_match(_, _, _)
try_time_patterns(s, n) ==
    IF n > Len(time_patterns) THEN <<>>
    ELSE time_of_match(s, n, re_search_time(s, time_patterns[n]))

\* the body of the loop for the match m of pattern n
time_of_match(s, n, m) ==
    IF m.found /\ m.hours <= 23 /\ m.minutes <= 59 /\ m.seconds <= 59
    THEN Fmt2(m.hours) \o <<":">> \o Fmt2(m.minutes) \o <<":">> \o Fmt2(m.seconds)
    ELSE try_time_patterns(s, n + 1)

\* the fallback after the patterns: pd.to_datetime(time_str), '' when it
\* raises or gives NaT
time_of_timestamp(time_obj) ==
    IF pd_isna(time_obj) THEN <<>> ELSE strftime_HMS(time_obj)

\* the result of the patterns when there is one, the fallback otherwise
time_or_fallback(by_pattern, time_str) ==
    IF by_pattern # <<>> THEN by_pattern ELSE time_of_timestamp(pd_to_datetime(time_str))

\* normalize_time from time_str = str(time_val).strip() on
normalize_time_str(time_str) == time_or_fallback(try_time_patterns(time_str, 1), time_str)

normalize_time(time_val) ==
    IF pd_isna(time_val) THEN <<>>
    ELSE IF time_val.t = "datetime" THEN strftime_HMS(time_val)
    ELSE normalize_time_str(str_strip(py_str(time_val)))

(***************************************************************************)
(* Configuration: ContainerTimeUpdater._get_default_config                 *)
(***************************************************************************)
S_Contenedor == <<"C", "o", "n", "t", "e", "n", "e", "d", "o", "r">>

S_Placa2 == <<"P", "l", "a", "c", "a", " ", "2">>

S_HrSalidaQP == <<"H", "r", " ", "s", "a", "l", "i", "d", "a", " ", "Q", "P">>

S_Fecha == <<"F", "e", "c", "h", "a">>

S_NUMERO_CONTENEDOR == <<"N", "U", "M", "E", "R", "O", " ", "C", "O", "N", "T", "E", "N", "E", "D", "O", "R">>

S_PLACA_DE_CARRETA == <<"P", "L", "A", "C", "A", " ", "D", "E", " ", "C", "A", "R", "R", "E", "T", "A">>

S_HORA_DE_SALIDA == <<"H", "O", "R", "A", " ", "D", "E", " ", "S", "A", "L", "I", "D", "A">>

main_file_columns ==
    [container |-> << S_Contenedor,
                      <<"C", "O", "N", "T", "E", "N", "E", "D", "O", "R">>,
                      <<"N", "r", "o", " ", "C", "o", "n", "t", "e", "n", "e", "d", "o", "r">> >>,
     plate |-> << S_Placa2,
                  <<"P", "l", "a", "c", "a">>,
                  <<"P", "L", "A", "C", "A", " ", "2">>,
                  <<"P", "L", "A", "C", "A">> >>,
     time |-> << S_HrSalidaQP,
                 <<"H", "O", "R", "A", " ", "S", "A", "L", "I", "D", "A", " ", "Q", "P">>,
                 <<"H", "O", "R", "A", "_", "S", "A", "L", "I", "D", "A", "_", "Q", "P">> >>,
     date |-> << S_Fecha,
                 <<"F", "E", "C", "H", "A">>,
                 <<"D", "a", "t", "e">> >>]

export_file_columns ==
    [container |-> << S_NUMERO_CONTENEDOR,
                      <<"C", "O", "N", "T", "E", "N", "E", "D", "O", "R">>,
                      <<"C", "O", "N", "T", "A", "I", "N", "E", "R">> >>,
     plate |-> << S_PLACA_DE_CARRETA,
                  <<"P", "L", "A", "C", "A", " ", "D", "E", "L", " ", "T", "R", "A", "C", "T", "O">>,
                  <<"P", "L", "A", "C", "A">>,
                  <<"C", "A", "R", "R", "E", "T", "A">> >>,
     time |-> << S_HORA_DE_SALIDA,
                 <<"H", "O", "R", "A", " ", "S", "A", "L", "I", "D", "A">>,
                 <<"H", "O", "R", "A">>,
                 <<"S", "A", "L", "I", "D", "A">> >>]

max_header_search_rows == 20

\* the values the eligibility mask takes for "no time yet"
blank_markers ==
    { <<"N", "A", "N">>, <<"N", "O", "N", "E">>, <<"N", "U", "L", "L">> }

(***************************************************************************)
(* ColumnResolver and HeaderLocator                                        *)
(***************************************************************************)
NoCol == 0

\* list.index / first position holding x, NoCol when there is none
IndexOf(seq, x) ==
    IF \E i \in 1..Len(seq) : seq[i] = x
    THEN SetMin({i \in 1..Len(seq) : seq[i] = x})
    ELSE NoCol

\* an exact pass that takes the first column equal to any of the patterns
find_column_columns_first(columns, patterns) ==
    LET df_columns_upper == [i \in 1..Len(columns) |-> str_upper(str_strip(columns[i]))]
        equal == {i \in 1..Len(columns) :
                     \E n \in 1..Len(patterns) : df_columns_upper[i] = str_upper(patterns[n])}
        holding == {i \in 1..Len(columns) :
                       \E n \in 1..Len(patterns) :
                           str_contains(df_columns_upper[i], str_upper(patterns[n]))}
    IN  IF equal # {} THEN SetMin(equal)
        ELSE IF holding # {} THEN SetMin(holding) ELSE NoCol

\* ContainerTimeUpdater.find_column_by_patterns: the position of the column
\* found (its label is columns[position]), NoCol for None
find_column_by_patterns(columns, patterns) ==
    LET df_columns_upper == [i \in 1..Len(columns) |-> str_upper(str_strip(columns[i]))]
        patterns_upper == [n \in 1..Len(patterns) |-> str_upper(patterns[n])]
        exact == {n \in 1..Len(patterns) : IndexOf(df_columns_upper, patterns_upper[n]) # NoCol}
        partial == {n \in 1..Len(patterns) :
                     \E i \in 1..Len(columns) :
                         str_contains(df_columns_upper[i], patterns_upper[n])}
    IN  IF exact # {}
        THEN IndexOf(df_columns_upper, patterns_upper[SetMin(exact)])
        ELSE IF partial # {}
        THEN SetMin({i \in 1..Len(columns) :
                        str_contains(df_columns_upper[i], patterns_upper[SetMin(partial)])})
        ELSE NoCol

NoRow == -1

\* a search of every row of the sheet
find_header_row_unbounded(grid, required_patterns) ==
    LET hits == {i \in 1..Len(grid) :
                    10 * Cardinality({n \in 1..Len(required_patterns) :
                            \E j \in 1..Len(grid[i]) :
                                /\ ~pd_isna(grid[i][j])
                                /\ str_contains(str_upper(py_str(grid[i][j])),
                                                str_upper(required_patterns[n]))})
                        >= 6 * Len(required_patterns)}
    IN  IF hits = {} THEN NoRow ELSE SetMin(hits) - 1

\* ContainerTimeUpdater.find_header_row (fuzzy): the 0-based index of the
\* first row matching at least 60 % of the patterns, NoRow for the ValueError
find_header_row(grid, required_patterns) ==
    LET max_rows == IF max_header_search_rows < Len(grid)
                    THEN max_header_search_rows ELSE Len(grid)
        patterns_upper == [n \in 1..Len(required_patterns) |-> str_upper(required_patterns[n])]
        row_values == [i \in 1..max_rows |->
                          [j \in 1..Len(grid[i]) |-> str_upper(py_str(grid[i][j]))]]
        matches == [i \in 1..max_rows |->
            Cardinality({n \in 1..Len(required_patterns) :
                \E j \in 1..Len(grid[i]) :
                    /\ row_values[i][j] # <<"N", "A", "N">>
                    /\ str_contains(row_values[i][j], patterns_upper[n])})]
        hits == {i \in 1..max_rows : 10 * matches[i] >= 6 * Len(required_patterns)}
    IN  IF hits = {} THEN NoRow ELSE SetMin(hits) - 1

\* find_header_row of the auto variant (strict): every essential header is
\* the whole of some cell, after trimming and lower-casing
find_header_row_strict(grid, essential_headers) ==
    LET max_rows == IF max_header_search_rows < Len(grid)
                    THEN max_header_search_rows ELSE Len(grid)
        normalized == {str_lower(str_strip(essential_headers[n])) :
                          n \in 1..Len(essential_headers)}
        row_values(i) ==
            {str_lower(str_strip(py_str(grid[i][j]))) :
                j \in {k \in 1..Len(grid[i]) :
                          ~pd_isna(grid[i][k]) /\ str_strip(py_str(grid[i][k])) # <<>>}}
        hits == {i \in 1..max_rows : normalized \subseteq row_values(i)}
    IN  IF hits = {} THEN NoRow ELSE SetMin(hits) - 1

\* pd.read_excel(..., header=header_row): the labels are the cells of that
\* row (an empty cell gets a generated label), the records the rows below
read_excel(grid, header_row) ==
    [columns |-> [j \in 1..Len(grid[header_row + 1]) |->
                     IF pd_isna(grid[header_row + 1][j])
                     THEN <<"U", "n", "n", "a", "m", "e", "d">>
                     ELSE py_str(grid[header_row + 1][j])],
     rows |-> SubSeq(grid, header_row + 2, Len(grid))]

(***************************************************************************)
(* Loading: load_and_prepare_main_file / load_and_prepare_export_file      *)
(***************************************************************************)
\* the columns found by their exact names
exact_columns(columns) ==
    [container |-> IndexOf(columns, S_Contenedor),
     plate |-> IndexOf(columns, S_Placa2),
     time |-> IndexOf(columns, S_HrSalidaQP),
     date |-> IndexOf(columns, S_Fecha)]

\* if 'plate' not in column_mapping: the search by patterns, for every
\* column type not yet mapped
pattern_columns(columns, exact) ==
    IF exact.plate = NoCol
    THEN [f \in DOMAIN exact |->
             IF exact[f] = NoCol
             THEN find_column_by_patterns(columns, main_file_columns[f])
             ELSE exact[f]]
    ELSE exact

\* result_df with its _column_mapping; ok = FALSE for the ValueError of a
\* missing essential column
prepared_main_file(df, column_mapping) ==
    [ok |-> column_mapping.plate # NoCol /\ column_mapping.time # NoCol,
     columns |-> df.columns,
     rows |-> df.rows,
     column_mapping |-> column_mapping]

\* load_and_prepare_main_file from the table read on
map_main_columns(df) ==
    prepared_main_file(df, pattern_columns(df.columns, exact_columns(df.columns)))

\* ContainerTimeUpdater.load_and_prepare_main_file: the sheet read with the
\* labels in its second row, and the column mapping
load_and_prepare_main_file(grid) == map_main_columns(read_excel(grid, 1))

\* the sheet of a workbook by name; NoCol when the workbook has none
sheet_index(book, sheet_name) ==
    IF \E i \in 1..Len(book) : book[i].name = sheet_name
    THEN SetMin({i \in 1..Len(book) : book[i].name = sheet_name})
    ELSE NoCol

\* the first two patterns of every column type
export_required_patterns ==
    SubSeq(export_file_columns.container, 1, 2)
    \o SubSeq(export_file_columns.plate, 1, 2)
    \o SubSeq(export_file_columns.time, 1, 2)

\* dropna(subset=[...]) and the filter on blank text
complete_export_row(r) ==
    \A f \in DOMAIN export_file_columns :
        ~pd_isna(r[f]) /\ str_strip(py_str(r[f])) # <<>>

\* the three columns under their internal names, the incomplete records
\* dropped; error "column" for the ValueError of a column not found
select_export_columns(df, column_mapping) ==
    IF \E f \in DOMAIN export_file_columns : column_mapping[f] = NoCol
    THEN [error |-> "column", rows |-> <<>>]
    ELSE [error |-> "none",
          rows |-> SelectSeq([i \in 1..Len(df.rows) |->
                                 [f \in DOMAIN export_file_columns |->
                                     df.rows[i][column_mapping[f]]]],
                             complete_export_row)]

\* the table read below the header row, with its columns resolved
map_export_columns(df) ==
    select_export_columns(df,
        [f \in DOMAIN export_file_columns |->
            find_column_by_patterns(df.columns, export_file_columns[f])])

\* the sheet read from the header row found; error "header" for the
\* ValueError of find_header_row
read_export_sheet(df_raw, header_row) ==
    IF header_row = NoRow THEN [error |-> "header", rows |-> <<>>]
    ELSE map_export_columns(read_excel(df_raw, header_row))

\* the sheet as a grid, searched for its header row
locate_export_header(df_raw) ==
    read_export_sheet(df_raw, find_header_row(df_raw, export_required_patterns))

\* the sheet at position si of the workbook; error "sheet" when there is none
open_export_sheet(book, si) ==
    IF si = NoCol THEN [error |-> "sheet", rows |-> <<>>]
    ELSE locate_export_header(book[si].grid)

\* ContainerTimeUpdater.load_and_prepare_export_file: error names the
\* exception raised ("none" when the table is returned), rows are the
\* records left after dropna and the blank filter
load_and_prepare_export_file(book, sheet_name) ==
    open_export_sheet(book, sheet_index(book, sheet_name))

(***************************************************************************)
(* LookupBuilder: ContainerTimeUpdater.create_normalized_lookup            *)
(***************************************************************************)
EmptyLookup == [k \in {} |-> <<>>]

\* lookup.setdefault(key, value): the first value of a key stays
dict_setdefault(lookup, key, value) ==
    [k \in DOMAIN lookup \cup {key} |-> IF k \in DOMAIN lookup THEN lookup[k] ELSE value]

\* lookup[key] = value
dict_set(lookup, key, value) ==
    [k \in DOMAIN lookup \cup {key} |-> IF k = key THEN value ELSE lookup[k]]

\* an iteration that does not look at the time
lookup_put_untimed(lookup, container_norm, plate_norm, time_norm) ==
    IF container_norm = <<>> THEN lookup
    ELSE IF plate_norm = <<>> THEN lookup
    ELSE dict_set(lookup, <<container_norm, plate_norm>>, time_norm)

\* the end of an iteration: the record is skipped unless all three
\* normalised values are non-empty
lookup_put(lookup, container_norm, plate_norm, time_norm) ==
    IF container_norm = <<>> THEN lookup
    ELSE IF plate_norm = <<>> THEN lookup
    ELSE IF time_norm = <<>> THEN lookup
    ELSE dict_set(lookup, <<container_norm, plate_norm>>, time_norm)

\* one iteration of the loop over export_df.iterrows()
lookup_step(lookup, row) ==
    lookup_put(lookup, normalize_text(row.container), normalize_text(row.plate),
               normalize_time(row.time))

RECURSIVE lookup_loop(_, _, _)
lookup_loop(lookup, export_df, n) ==
    IF n > Len(export_df) THEN lookup
    ELSE lookup_loop(lookup_step(lookup, export_df[n]), export_df, n + 1)

create_normalized_lookup(export_df) == lookup_loop(EmptyLookup, export_df, 1)

(***************************************************************************)
(* Reconciler: ContainerTimeUpdater.update_times_optimized                 *)
(***************************************************************************)
\* a mask that takes every record, whatever its time holds
needs_update_any(time_cell) == TRUE

\* needs_update_mask for one value of the time column
needs_update(time_cell) ==
    \/ pd_isna(time_cell)
    \/ str_strip(py_str(time_cell)) = <<>>
    \/ str_upper(str_strip(py_str(time_cell))) \in blank_markers

\* the calendar date of a Timestamp, NaT when there is none
date_or_nat(ts) == IF pd_isna(ts) THEN NaT ELSE date_of(ts)

\* the record's date as the date gate resolves it; NaT stands for the
\* values the gate skips (null, or a value pd.to_datetime cannot convert)
record_date(record_date_val) ==
    IF pd_isna(record_date_val) THEN NaT
    ELSE IF record_date_val.t = "datetime" THEN date_of(record_date_val)
    ELSE IF record_date_val.t = "date" THEN record_date_val
    ELSE IF record_date_val.t = "str" THEN date_or_nat(pd_to_datetime(record_date_val.v))
    ELSE NaT

\* step 3 of the loop body: with a date column, the record's date must
\* resolve and equal target_date; without one (if date_col:) the step is
\* not taken
date_passes(row, date_col, target_date) ==
    IF date_col # NoCol
    THEN record_date(row[date_col]) = target_date
    ELSE TRUE

\* a loop body that writes no record once the pass has written one
write_if_match_first_only(acc, idx, time_col, container_norm, plate_norm, date_ok, lookup) ==
    IF acc.written # {} THEN acc
    ELSE IF container_norm = <<>> \/ plate_norm = <<>> \/ ~date_ok THEN acc
    ELSE IF <<container_norm, plate_norm>> \in DOMAIN lookup
    THEN [rows |-> [acc.rows EXCEPT ![idx][time_col] =
                        Str(lookup[<<container_norm, plate_norm>>])],
          updates |-> acc.updates + 1,
          written |-> acc.written \cup {idx}]
    ELSE acc

\* a loop body that blanks the time of a record without a match
write_if_match_blank_unmatched(acc, idx, time_col, container_norm, plate_norm, date_ok, lookup) ==
    IF container_norm = <<>> \/ plate_norm = <<>> \/ ~date_ok THEN acc
    ELSE IF <<container_norm, plate_norm>> \in DOMAIN lookup
    THEN [rows |-> [acc.rows EXCEPT ![idx][time_col] =
                        Str(lookup[<<container_norm, plate_norm>>])],
          updates |-> acc.updates + 1,
          written |-> acc.written \cup {idx}]
    ELSE [acc EXCEPT !.rows[idx][time_col] = Str(<<>>)]

\* steps 1 to 4 of the loop body on the normalised values
write_if_match(acc, idx, time_col, container_norm, plate_norm, date_ok, lookup) ==
    IF container_norm = <<>> THEN acc
    ELSE IF plate_norm = <<>> THEN acc
    ELSE IF ~date_ok THEN acc
    ELSE IF <<container_norm, plate_norm>> \in DOMAIN lookup
    THEN [rows |-> [acc.rows EXCEPT ![idx][time_col] =
                        Str(lookup[<<container_norm, plate_norm>>])],
          updates |-> acc.updates + 1,
          written |-> acc.written \cup {idx}]
    ELSE acc

\* the body of the loop for the record at idx: acc holds the rows as
\* changed so far, the count and the positions written
update_step(acc, idx, column_mapping, lookup, target_date) ==
    write_if_match(acc, idx, column_mapping.time,
        IF column_mapping.container # NoCol
        THEN normalize_text(acc.rows[idx][column_mapping.container]) ELSE <<>>,
        normalize_text(acc.rows[idx][column_mapping.plate]),
        date_passes(acc.rows[idx], column_mapping.date, target_date),
        lookup)

RECURSIVE update_loop(_, _, _, _, _, _)
update_loop(acc, order, n, column_mapping, lookup, target_date) ==
    IF n > Len(order) THEN acc
    ELSE update_loop(update_step(acc, order[n], column_mapping, lookup, target_date),
                     order, n + 1, column_mapping, lookup, target_date)

\* the positions of a set in ascending order
RECURSIVE Ascending(_)
Ascending(S) ==
    IF S = {} THEN <<>> ELSE <<SetMin(S)>> \o Ascending(S \ {SetMin(S)})

\* a loop over every record of the table, masked or not
candidates_all(main_df) == Ascending(1..Len(main_df.rows))

\* main_df[needs_update_mask].index, the mask taken before the loop
candidates(main_df) ==
    Ascending({i \in 1..Len(main_df.rows) :
                  needs_update(main_df.rows[i][main_df.column_mapping.time])})

\* update_times_optimized: the rows after the call, the count returned, and
\* the positions whose time field was assigned
update_times_optimized(main_df, lookup, target_date) ==
    update_loop([rows |-> main_df.rows, updates |-> 0, written |-> {}],
                candidates(main_df), 1, main_df.column_mapping, lookup, target_date)

(***************************************************************************)
(* Date extraction: extract_date_from_export_filename                      *)
(***************************************************************************)
\* os.path.basename
basename(path) ==
    LET seps == {i \in 1..Len(path) : path[i] = "/"}
    IN  IF seps = {} THEN path ELSE SubSeq(path, SetMax(seps) + 1, Len(path))

\* whether (\d{4})_(\d{2}) matches at position i
re_match_ym_at(s, i) ==
    /\ i + 6 <= Len(s)
    /\ AllDigits(s, i, i + 3) /\ s[i + 4] = "_" /\ AllDigits(s, i + 5, i + 6)

\* re.search(r'(\d{4})_(\d{2})', filename)
re_search_ym(s) ==
    LET starts == {i \in 1..Len(s) : re_match_ym_at(s, i)}
    IN  IF starts = {} THEN [found |-> FALSE]
        ELSE LET i == SetMin(starts)
             IN  [found |-> TRUE,
                  year |-> DigitsVal(SubSeq(s, i, i + 3)),
                  month |-> DigitsVal(SubSeq(s, i + 5, i + 6))]

\* extract_date_from_export_filename: ok = FALSE for the ValueError
extract_date_from_export_filename(export_file_path, day_str) ==
    LET match == re_search_ym(basename(export_file_path))
        day == py_int(day_str)
    IN  IF ~match.found THEN [ok |-> FALSE, date |-> NaT]
        ELSE IF day < 0 THEN [ok |-> FALSE, date |-> NaT]
        ELSE IF datetime_ok(match.year, match.month, day)
        THEN [ok |-> TRUE, date |-> Date(match.year, match.month, day)]
        ELSE [ok |-> FALSE, date |-> NaT]

(***************************************************************************)
(* The auto variant: update_export_times                                   *)
(***************************************************************************)
\* re.search(r"_(\d{4})_(\d{2})", basename)
re_search_ym_auto(s) ==
    LET starts == {i \in 1..Len(s) : s[i] = "_" /\ re_match_ym_at(s, i + 1)}
    IN  IF starts = {} THEN [found |-> FALSE]
        ELSE LET i == SetMin(starts) + 1
             IN  [found |-> TRUE,
                  year |-> DigitsVal(SubSeq(s, i, i + 3)),
                  month |-> DigitsVal(SubSeq(s, i + 5, i + 6))]

\* the processing date of update_export_times; ok = FALSE for the ValueError
processing_date_auto(export_log_path, sheet_date) ==
    LET match_ym == re_search_ym_auto(basename(export_log_path))
        day == py_int(sheet_date)
    IN  IF match_ym.found /\ day >= 0 /\ datetime_ok(match_ym.year, match_ym.month, day)
        THEN [ok |-> TRUE, date |-> Date(match_ym.year, match_ym.month, day)]
        ELSE [ok |-> FALSE, date |-> NaT]

\* pd.to_datetime(column, errors='coerce').dt.date for one value
to_date_coerce(cell) ==
    IF pd_isna(cell) THEN NaT
    ELSE IF cell.t = "datetime" THEN date_of(cell)
    ELSE IF cell.t = "date" THEN cell
    ELSE IF cell.t = "str" THEN date_or_nat(pd_to_datetime(cell.v))
    ELSE NaT

\* astype(str).fillna('') then str.replace(r'[- ]', '').str.upper()
normalize_auto(cell) ==
    str_upper(SelectSeq(py_str(cell), LAMBDA c : c # "-" /\ c # " "))

\* the sheet update_export_times reads: the sheet named sheet_date, or in
\* the fallback the first sheet whose name contains it; NoCol when neither
\* yields a header row
source_sheet_auto(book, sheet_date, src_essential_headers) ==
    LET si == sheet_index(book, sheet_date)
        first_try ==
            si # NoCol /\ find_header_row_strict(book[si].grid, src_essential_headers) # NoRow
        containing == {i \in 1..Len(book) : str_contains(book[i].name, sheet_date)}
        found_sheet ==
            IF si # NoCol THEN si
            ELSE IF containing # {} THEN SetMin(containing) ELSE NoCol
    IN  IF first_try THEN si
        ELSE IF found_sheet # NoCol
                /\ find_header_row_strict(book[found_sheet].grid, src_essential_headers) # NoRow
        THEN found_sheet
        ELSE NoCol

\* next((c for c in columns if <c.upper() contains every word of one of
\* the alternatives>), None)
first_column_with(columns, alternatives) ==
    LET hits == {i \in 1..Len(columns) :
                    \E words \in alternatives :
                        \A w \in words : str_contains(str_upper(columns[i]), w)}
    IN  IF hits = {} THEN NoCol ELSE SetMin(hits)

\* f"{int(m.group(1)):02d}:{m.group(2)}" for the match m, <<>> for None
fmt_match_auto(m) ==
    IF m.found THEN Fmt2(m.hours) \o <<":">> \o m.minutes_text ELSE <<>>

\* strftime('%H:%M') of a Timestamp, <<>> when there is none
fmt_timestamp_auto(ts) == IF pd_isna(ts) THEN <<>> ELSE strftime_HM(ts)

\* secs = int(time_val * 86400); f"{secs // 3600:02d}:{(secs % 3600) // 60:02d}"
fmt_fraction_auto(secs) == Fmt2(secs \div 3600) \o <<":">> \o Fmt2((secs % 3600) \div 60)

\* the time of an export record as the lookup loop formats it; <<>> for None
fmt_time_auto(time_val) ==
    IF time_val.t \in {"time", "datetime"} THEN strftime_HM(time_val)
    ELSE IF time_val.t = "str"
    THEN fmt_match_auto(re_search_time(time_val.v, [sep |-> ":", groups |-> 2]))
    ELSE IF time_val.t = "float" /\ time_val.day_millis < 86400000
    THEN fmt_fraction_auto(time_val.day_millis \div 1000)
    ELSE fmt_timestamp_auto(pd_to_datetime(py_str(time_val)))

\* if container and plate and pd.notna(time_val): ... if fmt_time:
departure_put(departure_times, container, plate, time_val) ==
    IF container # <<>> /\ plate # <<>> /\ ~pd_isna(time_val)
       /\ fmt_time_auto(time_val) # <<>>
    THEN dict_set(departure_times, <<container, plate>>, fmt_time_auto(time_val))
    ELSE departure_times

\* one iteration of the lookup loop over export_df.iterrows()
departure_step(departure_times, row) ==
    departure_put(departure_times, normalize_auto(row.container),
                  normalize_auto(row.plate), row.time)

RECURSIVE departure_loop(_, _, _)
departure_loop(departure_times, export_rows, n) ==
    IF n > Len(export_rows) THEN departure_times
    ELSE departure_loop(departure_step(departure_times, export_rows[n]), export_rows, n + 1)

\* curr_time_str of the matching loop
curr_time_str_auto(current_val) ==
    IF current_val.t \in {"time", "datetime"} THEN strftime_HM(current_val)
    ELSE py_str(current_val)

\* the body of the matching loop for the record at idx with its key
match_write(acc, idx, time_col, key, current_val, dest_row_date, departure_times, processing_date) ==
    IF key \in DOMAIN departure_times
       /\ (pd_isna(current_val) \/ curr_time_str_auto(current_val) # departure_times[key])
       /\ ~pd_isna(dest_row_date) /\ dest_row_date = processing_date
    THEN [rows |-> [acc.rows EXCEPT ![idx][time_col] = Str(departure_times[key])],
          updates |-> acc.updates + 1,
          written |-> acc.written \cup {idx}]
    ELSE acc

\* one iteration of the matching loop over main_df.iterrows(); cols gives
\* the positions of the four destination columns
match_step(acc, idx, cols, departure_times, processing_date) ==
    match_write(acc, idx, cols.time,
        <<normalize_auto(acc.rows[idx][cols.container]),
          normalize_auto(acc.rows[idx][cols.plate])>>,
        acc.rows[idx][cols.time], acc.rows[idx][cols.date],
        departure_times, processing_date)

RECURSIVE match_loop(_, _, _, _, _)
match_loop(acc, n, cols, departure_times, processing_date) ==
    IF n > Len(acc.rows) THEN acc
    ELSE match_loop(match_step(acc, n, cols, departure_times, processing_date),
                    n + 1, cols, departure_times, processing_date)

NoRun == [status |-> "not_run"]

dest_essential_headers == <<S_Contenedor, S_Placa2, S_HrSalidaQP, S_Fecha>>

src_essential_headers == <<S_NUMERO_CONTENEDOR, S_PLACA_DE_CARRETA, S_HORA_DE_SALIDA>>

\* the return (0, None) of the except clauses
auto_failed == [status |-> "error", updates_count |-> 0]

\* the return of update_export_times after the matching loop: "unchanged"
\* is (0, main_file_path) without a write, "saved" is (updates_count,
\* main_file_path) after the write
auto_result(main_df, dest_header_row, processing_date, export_rows, departure_times, matched) ==
    [status |-> IF matched.updates > 0 THEN "saved" ELSE "unchanged",
     updates_count |-> matched.updates,
     processing_date |-> processing_date,
     export_rows |-> export_rows,
     departure_times |-> departure_times,
     columns |-> main_df.columns,
     rows_before |-> main_df.rows,
     rows_after |-> matched.rows,
     written |-> matched.written,
     header_row |-> dest_header_row]

\* main_df[dest_date_col] = pd.to_datetime(..., errors='coerce').dt.date
dated_rows(rows, date_col) ==
    [i \in 1..Len(rows) |-> [rows[i] EXCEPT ![date_col] = to_date_coerce(@)]]

\* the matching loop over the destination records
auto_match(main_df, dest_header_row, processing_date, cols, export_rows, departure_times) ==
    auto_result(main_df, dest_header_row, processing_date, export_rows, departure_times,
        match_loop([rows |-> dated_rows(main_df.rows, cols.date), updates |-> 0,
                    written |-> {}],
                   1, cols, departure_times, processing_date))

\* the three source columns of every export record
source_rows(export_df, src) ==
    [i \in 1..Len(export_df.rows) |->
        [f \in DOMAIN src |-> export_df.rows[i][src[f]]]]

\* the lookup loop over the export records
auto_lookup(main_df, dest_header_row, processing_date, cols, export_rows) ==
    auto_match(main_df, dest_header_row, processing_date, cols, export_rows,
               departure_loop(EmptyLookup, export_rows, 1))

\* the checks on the columns of both tables
auto_columns(main_df, dest_header_row, processing_date, cols, export_df, src) ==
    IF \E f \in DOMAIN cols : cols[f] = NoCol THEN auto_failed
    ELSE IF \E f \in DOMAIN src : src[f] = NoCol THEN auto_failed
    ELSE auto_lookup(main_df, dest_header_row, processing_date, cols,
                     source_rows(export_df, src))

\* expected_source_* if present, else the first column whose upper-cased
\* label holds the words
source_columns(export_columns) ==
    [container |->
        IF IndexOf(export_columns, S_NUMERO_CONTENEDOR) # NoCol
        THEN IndexOf(export_columns, S_NUMERO_CONTENEDOR)
        ELSE first_column_with(export_columns,
                 { {<<"C", "O", "N", "T", "E", "N", "E", "D", "O", "R">>},
                   {<<"C", "O", "N", "T", "A", "I", "N", "E", "R">>} }),
     plate |->
        IF IndexOf(export_columns, S_PLACA_DE_CARRETA) # NoCol
        THEN IndexOf(export_columns, S_PLACA_DE_CARRETA)
        ELSE first_column_with(export_columns,
                 { {<<"P", "L", "A", "C", "A">>, <<"C", "A", "R", "R", "E", "T", "A">>} }),
     time |->
        IF IndexOf(export_columns, S_HORA_DE_SALIDA) # NoCol
        THEN IndexOf(export_columns, S_HORA_DE_SALIDA)
        ELSE first_column_with(export_columns,
                 { {<<"H", "O", "R", "A">>, <<"S", "A", "L", "I", "D", "A">>} })]

\* export_df.columns = [str(col).strip() for col in export_df.columns]
stripped_columns(columns) == [j \in 1..Len(columns) |-> str_strip(columns[j])]

\* the export table read, its columns to be identified
auto_export_read(main_df, dest_header_row, processing_date, export_df) ==
    auto_columns(main_df, dest_header_row, processing_date, exact_columns(main_df.columns),
                 export_df, source_columns(stripped_columns(export_df.columns)))

\* pd.read_excel(export_log_path, sheet_name=..., header=<the header row found>)
read_source_sheet(grid) ==
    read_excel(grid, find_header_row_strict(grid, src_essential_headers))

\* the destination table read; the export sheet to be read
auto_main_read(main_df, dest_header_row, processing_date, book, ssheet) ==
    IF IndexOf(main_df.columns, S_Fecha) = NoCol THEN auto_failed
    ELSE IF ssheet = NoCol THEN auto_failed
    ELSE auto_export_read(main_df, dest_header_row, processing_date,
                          read_source_sheet(book[ssheet].grid))

\* the header row of the destination and the processing date known
auto_start(main_grid, dest_header_row, pdate, book, sheet_date) ==
    IF dest_header_row = NoRow THEN auto_failed
    ELSE IF ~pdate.ok THEN auto_failed
    ELSE auto_main_read(read_excel(main_grid, dest_header_row), dest_header_row,
                        pdate.date, book,
                        source_sheet_auto(book, sheet_date, src_essential_headers))

\* update_export_times as a whole
update_export_times(main_grid, export_log_path, book, sheet_date) ==
    auto_start(main_grid, find_header_row_strict(main_grid, dest_essential_headers),
               processing_date_auto(export_log_path, sheet_date), book, sheet_date)

(***************************************************************************)
(* Inputs: the destination sheet, the export workbook, the days            *)
(***************************************************************************)
MaxRows == 2

MaxExportRows == 2

MaxDays == 2

\* the sequences over S of a length from lo to hi
Seqs(S, lo, hi) == UNION {[1..n -> S] : n \in lo..hi}

Day14 == DateTime(2025, 5, 14, 0, 0, 0)

Day15 == DateTime(2025, 5, 15, 8, 30, 0)

\* destination records: container, plate, time, date
DestRows ==
    { <<Str(<<"M", "R", "K", "U", "-", "5", "4", "6", "6", "9", "4", " ", "7">>), Str(<<"T", " ", "1", "2", "3", "-", "4", "5">>), Null, Day14>>,
      <<Str(<<"M", "R", "K", "U", "-", "5", "4", "6", "6", "9", "4", " ", "7">>), Str(<<"T", " ", "1", "2", "3", "-", "4", "5">>), Null, Day15>>,
      <<Str(<<"m", "r", "k", "u", "5", "4", "6", "6", "9", "4", "7">>), Str(<<"t", "1", "2", "3", "4", "5">>), Str(<<"0", "8", ":", "0", "0">>), Day14>>,
      <<Str(<<"M", "R", "K", "U", "5", "4", "6", "6", "9", "4", "7">>), Str(<<"T", "1", "2", "3", "4", "5">>), Str(<<" ", "n", "a", "n", " ">>), Str(<<"2", "0", "2", "5", "-", "0", "5", "-", "1", "4">>)>>,
      <<Str(<<"T", "C", "L", "U", "1">>), Str(<<"T", "1", "2", "3", "4", "5">>), Null, Day14>>,
      <<Str(<<"M", "R", "K", "U", "5", "4", "6", "6", "9", "4", "7">>), Str(<<" ", " ">>), Null, Day14>>,
      <<Str(<<"M", "R", "K", "U", "5", "4", "6", "6", "9", "4", "7">>), Str(<<"T", "1", "2", "3", "4", "5">>), Str(<<>>), Null>>,
      <<Str(<<"M", "R", "K", "U", "5", "4", "6", "6", "9", "4", "7">>), Str(<<"T", "1", "2", "3", "4", "5">>), Str(<<"N", "o", "n", "e">>), Str(<<"s", "/", "f">>)>> }

\* export records: container, plate, time
ExportRows ==
    { <<Str(<<"M", "R", "K", "U", "5", "4", "6", "6", "9", "4", "7">>), Str(<<"T", "1", "2", "3", "4", "5">>), Str(<<"1", "4", ":", "0", "5">>)>>,
      <<Str(<<"m", "r", "k", "u", "-", "5", "4", "6", "6", "9", "4", "7">>), Str(<<"t", " ", "1", "2", "3", "4", "5">>), TimeOfDay(9, 30, 0)>>,
      <<Null, Str(<<"T", "1", "2", "3", "4", "5">>), Str(<<"1", "0", ":", "0", "0">>)>>,
      <<Str(<<"-", "-">>), Str(<<"T", "1", "2", "3", "4", "5">>), Str(<<"1", "0", ":", "0", "0">>)>>,
      <<Str(<<"M", "R", "K", "U", "5", "4", "6", "6", "9", "4", "7">>), Str(<<"T", "1", "2", "3", "4", "5">>), Str(<<"2", "5", ":", "0", "0">>)>>,
      <<Str(<<"T", "C", "L", "U", "1">>), Str(<<"-">>), Str(<<"1", "1", ":", "0", "0">>)>>,
      <<Str(<<"T", "C", "L", "U", "1">>), Str(<<"A", "B", "1">>), Str(<<"7", ".", "3", "0">>)>> }

\* the destination records the export sheets of every shape are run against
LookupDestRows ==
    { <<Str(<<"M", "R", "K", "U", "-", "5", "4", "6", "6", "9", "4", " ", "7">>), Str(<<"T", " ", "1", "2", "3", "-", "4", "5">>), Null, Day14>>,
      <<Str(<<"T", "C", "L", "U", "1">>), Str(<<"a", "b", "-", "1">>), Null, Day14>> }

TitleRow(width) == [j \in 1..width |-> IF j = 1 THEN Str(<<"R", "E", "P", "O", "R", "T", "E">>) ELSE Null]

\* the label rows a destination sheet may carry
MainHeaders ==
    { <<Str(S_Contenedor), Str(S_Placa2), Str(S_HrSalidaQP), Str(S_Fecha)>>,
      <<Str(S_Contenedor), Str(S_Placa2), Str(S_HrSalidaQP), Str(<<"F", "E", "C", "H", "A">>)>>,
      <<Str(S_Contenedor), Str(<<"P", "L", "A", "C", "A">>), Str(S_HrSalidaQP), Str(<<"F", "E", "C", "H", "A">>)>>,
      <<Str(<<"C", "O", "N", "T", "E", "N", "E", "D", "O", "R">>), Str(S_Placa2), Str(S_HrSalidaQP), Str(S_Fecha)>>,
      <<Str(S_Contenedor), Str(S_Placa2), Str(<<"H", "o", "r", "a">>), Str(S_Fecha)>>,
      <<Str(S_Contenedor), Str(S_Placa2), Str(main_file_columns.time[2]), Str(S_Fecha)>> }

StandardHeader == <<Str(S_Contenedor), Str(S_Placa2), Str(S_HrSalidaQP), Str(S_Fecha)>>

\* sheet BBDD of the destination file: a title row, the labels, the records
MainGrid(header, rows) == <<TitleRow(4), header>> \o rows

ExportHeader == <<Str(S_NUMERO_CONTENEDOR), Str(S_PLACA_DE_CARRETA), Str(S_HORA_DE_SALIDA)>>

ScenarioDestRows == << <<Str(<<"M", "R", "K", "U", "-", "5", "4", "6", "6", "9", "4", " ", "7">>), Str(<<"T", " ", "1", "2", "3", "-", "4", "5">>), Null, Day14>> >>

ScenarioExportRows == << <<Str(<<"M", "R", "K", "U", "5", "4", "6", "6", "9", "4", "7">>), Str(<<"T", "1", "2", "3", "4", "5">>), Str(<<"1", "4", ":", "0", "5">>)>> >>

D14 == <<"1", "4">>

D15 == <<"1", "5">>

\* the export workbook: sheet "14" holds rows14; sheet "15" one record of
\* the same key with another time; sheet "16" has no header row; sheet
\* "17" lacks the time column; there is no other sheet
Book(rows14) ==
    << [name |-> D14, grid |-> <<TitleRow(3), ExportHeader>> \o rows14],
       [name |-> D15,
        grid |-> <<TitleRow(3), ExportHeader,
                   <<Str(<<"M", "R", "K", "U", "5", "4", "6", "6", "9", "4", "7">>), Str(<<"T", "1", "2", "3", "4", "5">>), Str(<<"1", "6", ":", "4", "5">>)>> >>],
       [name |-> <<"1", "6">>,
        grid |-> <<TitleRow(3),
                   <<Str(<<"M", "R", "K", "U", "5", "4", "6", "6", "9", "4", "7">>), Str(<<"T", "1", "2", "3", "4", "5">>), Str(<<"1", "4", ":", "0", "5">>)>> >>],
       [name |-> <<"1", "7">>,
        grid |-> <<TitleRow(3),
                   <<Str(S_NUMERO_CONTENEDOR), Str(S_PLACA_DE_CARRETA),
                     Str(<<"P", "L", "A", "C", "A", " ", "D", "E", "L", " ", "T", "R", "A", "C", "T", "O">>)>>,
                   <<Str(<<"M", "R", "K", "U", "5", "4", "6", "6", "9", "4", "7">>), Str(<<"T", "1", "2", "3", "4", "5">>), Str(<<"A", "B", "1">>)>> >>] >>

\* day selectors: a good sheet, a sheet without a header row, a sheet without
\* the time column, names of no sheet (31, 29), and a day that is no day
DayStrs == {D14, <<"1", "6">>, <<"1", "7">>, <<"3", "1">>, <<"2", "9">>, <<"0", "0">>}

\* the lists of days of the reconcile runs: one day, the same day twice, two
\* days in a row
DayLists == {<<D14>>, <<D14, D14>>, <<D14, D15>>}

Filenames ==
    { <<"S", "A", "L", "I", "D", "A", "_", "2", "0", "2", "5", "_", "0", "5", ".", "x", "l", "s", "x">>,
      <<"S", "A", "L", "I", "D", "A", "_", "2", "0", "2", "5", "_", "1", "3", ".", "x", "l", "s", "x">>,
      <<"S", "A", "L", "I", "D", "A", "_", "2", "0", "2", "5", "_", "0", "4", ".", "x", "l", "s", "x">>,
      <<"S", "A", "L", "I", "D", "A", "_", "2", "0", "2", "4", "_", "0", "2", ".", "x", "l", "s", "x">>,
      <<"S", "A", "L", "I", "D", "A", ".", "x", "l", "s", "x">>,
      <<"2", "0", "2", "5", "_", "0", "5", "/", "S", "A", "L", "I", "D", "A", ".", "x", "l", "s", "x">> }

ExportMay == <<"S", "A", "L", "I", "D", "A", "_", "2", "0", "2", "5", "_", "0", "5", ".", "x", "l", "s", "x">>

(***************************************************************************)
(* State                                                                   *)
(***************************************************************************)
VARIABLES
    main_file,          \* sheet BBDD of the destination file, as a grid of cells
    export_file_path,   \* the path of the export log
    export_file,        \* the export workbook: its sheets, by name
    days_to_process,    \* the day selectors (sheet names) of the run
    pc,                 \* where the run stands
    main_df,            \* the destination table held in memory
    day_idx,            \* the position of the loop of process_multiple_days
    target_date,        \* locals of the loop body
    export_df,
    lookup,
    total_updates,
    output_file,        \* what _save_updated_file wrote
    attempts,           \* history: one entry per day the loop has begun
    auto,               \* the outcome of update_export_times
    call,               \* a single function called on its own: its name and arguments
    result,             \* what that call returned
    heap,               \* the tables in memory, by reference
    cache,              \* self._cache: cache key -> reference of the table kept
    loads               \* history: one entry per call of _load_excel_cached

vars == <<main_file, export_file_path, export_file, days_to_process, pc, main_df,
          day_idx, target_date, export_df, lookup, total_updates, output_file,
          attempts, auto, call, result, heap, cache, loads>>

calls == <<call, result>>

cache_vars == <<heap, cache, loads>>

NoCall == [fn |-> "none"]

NoResult == [done |-> FALSE]

inputs == <<main_file, export_file_path, export_file, days_to_process>>

NoFile == [written |-> FALSE]

NoDf == [ok |-> FALSE]

\* the inputs of one run
Run(grid, path, book, days) ==
    [main_file |-> grid, export_file_path |-> path, export_file |-> book,
     days_to_process |-> days]

\* destination tables of every shape against the scenario workbook
ReconcileRuns ==
    {Run(MainGrid(StandardHeader, rows), ExportMay, Book(ScenarioExportRows), days) :
        rows \in Seqs(DestRows, 1, MaxRows), days \in DayLists}

\* every label row over one-record tables
HeaderRuns ==
    {Run(MainGrid(h, <<r>>), ExportMay, Book(ScenarioExportRows), days) :
        h \in MainHeaders, r \in DestRows, days \in DayLists}

\* export sheets of every shape
LookupRuns ==
    {Run(MainGrid(StandardHeader, <<r>>), ExportMay, Book(rows), <<D14>>) :
        r \in LookupDestRows, rows \in Seqs(ExportRows, 0, MaxExportRows)}

\* every file name against every list of days
DateRuns ==
    {Run(MainGrid(StandardHeader, ScenarioDestRows), path, Book(ScenarioExportRows), days) :
        path \in Filenames, days \in Seqs(DayStrs, 0, MaxDays)}

Init ==
    /\ \E run \in ReconcileRuns \cup HeaderRuns \cup LookupRuns \cup DateRuns :
          /\ main_file = run.main_file
          /\ export_file_path = run.export_file_path
          /\ export_file = run.export_file
          /\ days_to_process = run.days_to_process
    /\ pc = "start"
    /\ main_df = NoDf
    /\ day_idx = 1
    /\ target_date = NaT
    /\ export_df = <<>>
    /\ lookup = EmptyLookup
    /\ total_updates = 0
    /\ output_file = NoFile
    /\ attempts = <<>>
    /\ auto = NoRun
    /\ call = NoCall
    /\ result = NoResult
    /\ heap = <<>>
    /\ cache = EmptyLookup
    /\ loads = <<>>

(***************************************************************************)
(* process_multiple_days, statement by statement                           *)
(***************************************************************************)
\* the loop moves on after a day that completed
after_day(idx) == idx + 1

\* an error that ends the loop: no later day is begun
after_day_error_break(idx, n_days) == n_days + 1

\* except Exception ... continue: the loop moves on to the next day
after_day_error(idx, n_days) == idx + 1

\* a total that keeps only the count of the last day
accumulate_last(total, day_updates) == day_updates

\* total_updates += day_updates
accumulate(total, day_updates) == total + day_updates

\* the statement that follows the loop body at position idx
pc_at(idx) == IF idx > Len(days_to_process) THEN "save" ELSE "extract"

NewAttempt(day, rows) ==
    [day |-> day, stage |-> "extract", error |-> FALSE, finished |-> FALSE,
     target_date |-> NaT, export_df |-> <<>>, lookup |-> EmptyLookup,
     rows_start |-> rows, rows_end |-> rows, updates |-> 0, written |-> {}]

\* main_df = self.load_and_prepare_main_file(main_file_path); the
\* ValueError of a missing essential column ends the run
LoadMainFile ==
    /\ pc = "start"
    /\ \E df \in {load_and_prepare_main_file(main_file)} :
          /\ main_df' = df
          /\ pc' = IF df.ok THEN pc_at(1) ELSE "failed"
    /\ UNCHANGED <<inputs, day_idx, target_date, export_df, lookup, total_updates,
                   output_file, attempts, auto>>
    /\ UNCHANGED <<calls, cache_vars>>

\* target_date = self.extract_date_from_export_filename(export_file_path, day)
ExtractDate ==
    /\ pc = "extract"
    /\ \E r \in {extract_date_from_export_filename(export_file_path,
                                                    days_to_process[day_idx])},
          a \in {NewAttempt(days_to_process[day_idx], main_df.rows)},
          nxt \in {after_day_error(day_idx, Len(days_to_process))} :
          IF r.ok
          THEN /\ target_date' = r.date
               /\ attempts' = Append(attempts, [a EXCEPT !.target_date = r.date])
               /\ pc' = "load_export"
               /\ UNCHANGED day_idx
          ELSE /\ attempts' = Append(attempts, [a EXCEPT !.error = TRUE, !.finished = TRUE])
               /\ day_idx' = nxt
               /\ pc' = pc_at(nxt)
               /\ UNCHANGED target_date
    /\ UNCHANGED <<inputs, main_df, export_df, lookup, total_updates, output_file, auto>>
    /\ UNCHANGED <<calls, cache_vars>>

\* export_df = self.load_and_prepare_export_file(export_file_path, day)
LoadExport ==
    /\ pc = "load_export"
    /\ \E r \in {load_and_prepare_export_file(export_file, days_to_process[day_idx])},
          n \in {Len(attempts)},
          nxt \in {after_day_error(day_idx, Len(days_to_process))} :
          IF r.error = "none"
          THEN /\ export_df' = r.rows
               /\ attempts' = [attempts EXCEPT ![n].stage = "load", ![n].export_df = r.rows]
               /\ pc' = "create_lookup"
               /\ UNCHANGED day_idx
          ELSE /\ attempts' = [attempts EXCEPT ![n].stage = "load", ![n].error = TRUE,
                                               ![n].finished = TRUE]
               /\ day_idx' = nxt
               /\ pc' = pc_at(nxt)
               /\ UNCHANGED export_df
    /\ UNCHANGED <<inputs, main_df, target_date, lookup, total_updates, output_file, auto>>
    /\ UNCHANGED <<calls, cache_vars>>

\* lookup = self.create_normalized_lookup(export_df, target_date)
CreateLookup ==
    /\ pc = "create_lookup"
    /\ lookup' = create_normalized_lookup(export_df)
    /\ attempts' = [attempts EXCEPT ![Len(attempts)].stage = "lookup",
                                    ![Len(attempts)].lookup = lookup']
    /\ pc' = "update"
    /\ UNCHANGED <<inputs, main_df, day_idx, target_date, export_df, total_updates,
                   output_file, auto>>
    /\ UNCHANGED <<calls, cache_vars>>

\* a pass whose result is counted but not kept in main_df
UpdateTimesOnCopy ==
    /\ pc = "update"
    /\ \E r \in {update_times_optimized(main_df, lookup, target_date)},
          n \in {Len(attempts)},
          nxt \in {after_day(day_idx)} :
          /\ total_updates' = accumulate(total_updates, r.updates)
          /\ attempts' = [attempts EXCEPT ![n].stage = "update", ![n].finished = TRUE,
                                          ![n].rows_end = r.rows, ![n].updates = r.updates,
                                          ![n].written = r.written]
          /\ day_idx' = nxt
          /\ pc' = pc_at(nxt)
    /\ UNCHANGED <<inputs, main_df, target_date, export_df, lookup, output_file, auto>>
    /\ UNCHANGED <<calls, cache_vars>>

\* day_updates = self.update_times_optimized(main_df, lookup, target_date)
\* total_updates += day_updates
UpdateTimes ==
    /\ pc = "update"
    /\ \E r \in {update_times_optimized(main_df, lookup, target_date)},
          n \in {Len(attempts)},
          nxt \in {after_day(day_idx)} :
          /\ main_df' = [main_df EXCEPT !.rows = r.rows]
          /\ total_updates' = accumulate(total_updates, r.updates)
          /\ attempts' = [attempts EXCEPT ![n].stage = "update", ![n].finished = TRUE,
                                          ![n].rows_end = r.rows, ![n].updates = r.updates,
                                          ![n].written = r.written]
          /\ day_idx' = nxt
          /\ pc' = pc_at(nxt)
    /\ UNCHANGED <<inputs, target_date, export_df, lookup, output_file, auto>>
    /\ UNCHANGED <<calls, cache_vars>>

\* output_path = self._save_updated_file(main_df, main_file_path)
SaveUpdatedFile ==
    /\ pc = "save"
    /\ output_file' = [written |-> TRUE, columns |-> main_df.columns, rows |-> main_df.rows]
    /\ pc' = "done"
    /\ UNCHANGED <<inputs, main_df, day_idx, target_date, export_df, lookup,
                   total_updates, attempts, auto>>
    /\ UNCHANGED <<calls, cache_vars>>

(***************************************************************************)
(* The auto variant, run for the first day of the list                     *)
(***************************************************************************)
\* a save that does not look at updates_count
sheet_after_auto_always(grid, r) ==
    IF r.status # "error"
    THEN SubSeq(grid, 1, r.header_row)
         \o <<[j \in 1..Len(r.columns) |-> Str(r.columns[j])]>>
         \o r.rows_after
    ELSE grid

\* the sheet BBDD after the run: rewritten from the header row on when
\* there were updates, untouched otherwise
sheet_after_auto(grid, r) ==
    IF r.status = "saved"
    THEN SubSeq(grid, 1, r.header_row)
         \o <<[j \in 1..Len(r.columns) |-> Str(r.columns[j])]>>
         \o r.rows_after
    ELSE grid

UpdateExportTimes ==
    /\ pc = "start"
    /\ days_to_process # <<>>
    /\ \E r \in {update_export_times(main_file, export_file_path, export_file,
                                       days_to_process[1])} :
          /\ auto' = r
          /\ main_file' = sheet_after_auto(main_file, r)
    /\ pc' = "auto_done"
    /\ UNCHANGED <<export_file_path, export_file, days_to_process, main_df, day_idx,
                   target_date, export_df, lookup, total_updates, output_file, attempts>>
    /\ UNCHANGED <<calls, cache_vars>>

Next ==
    \/ LoadMainFile
    \/ ExtractDate
    \/ LoadExport
    \/ CreateLookup
    \/ UpdateTimes
    \/ SaveUpdatedFile
    \/ UpdateExportTimes

Spec == Init /\ [][Next]_vars

(***************************************************************************)
(* Single calls of the functions of both variants                          *)
(***************************************************************************)
MaxTextLen == 3

MaxCols == 2

MaxGridRows == 3

\* floats in [0, 1) read from cells formatted as numbers: 14:05, half a
\* second before 14:05, 06:00, 09:30; and 1.25
Floats ==
    { Float(<<"0", ".", "5", "8", "6", "8", "0", "5", "5", "5", "5", "5", "5", "5", "5", "5", "5", "6">>, 50700000),
      Float(<<"0", ".", "5", "8", "6", "8">>, 50699520),
      Float(<<"0", ".", "2", "5">>, 21600000),
      Float(<<"0", ".", "3", "9", "5", "8", "3", "3", "3", "3", "3", "3", "3", "3", "3", "3", "3", "3">>, 34200000),
      Float(<<"1", ".", "2", "5">>, 108000000) }

\* what normalize_text is given
TextInputs ==
    {Null, NaT, DateTime(2025, 5, 14, 0, 0, 0)}
    \cup Floats
    \cup {Str(s) : s \in Seqs({"a", "Z", "7", " ", "-", "\t", "ñ", "ß"}, 0, MaxTextLen)}
    \cup {Str(<<"M", "R", "K", "U", " ", "5", "4", "6", "6", "9", "4", "-", "7">>)}

\* texts of times: hours and minutes; hours, minutes and seconds after a
\* colon; and dotted hours and minutes in range followed by a third field
TimeTexts ==
    LET Prefixes == {<<>>, <<" ">>, <<"x">>}
        GoodHours == {<<"7">>, <<"1", "4">>}
        Hours == GoodHours \cup {<<"2", "5">>}
        Minutes == {<<"0", "5">>, <<"6", "0">>}
        Seconds == {<<"3", "0">>, <<"6", "1">>}
        Seps == {":", "."}
    IN
    {pre \o h \o <<a>> \o m : pre \in Prefixes, h \in Hours, a \in Seps, m \in Minutes}
    \cup {pre \o h \o <<":">> \o m \o <<b>> \o sec :
             pre \in Prefixes, h \in Hours, m \in Minutes, b \in Seps, sec \in Seconds}
    \cup {pre \o h \o <<".", "0", "5">> \o <<b>> \o sec :
             pre \in Prefixes, h \in GoodHours, b \in Seps, sec \in Seconds}
    \cup { <<>>, <<"a", "b", "c">>,
           <<"9", "9", ":", "0", "0", " ", "1", "4", ":", "0", "5">>,
           <<"1", "2", "3", ":", "4", "5">>,
           <<"2", "0", "2", "5", "-", "0", "5", "-", "1", "4">>,
           <<"2", "0", "2", "5", "-", "0", "5", "-", "1", "4", " ", "1", "4", ":", "0", "5", ":", "3", "0">> }

\* what normalize_time and the lookup loop of update_export_times are given
TimeInputs ==
    {Null, NaT, TimeOfDay(14, 5, 0), TimeOfDay(9, 30, 15), DateTime(2025, 5, 14, 14, 5, 30),
     Date(2025, 5, 14)}
    \cup Floats
    \cup {Str(s) : s \in TimeTexts}

\* labels of columns, some padded, some holding a synonym inside
Labels ==
    { S_Placa2, <<"P", "l", "a", "c", "a">>, <<" ", "p", "l", "a", "c", "a", " ">>,
      <<"X", " ", "P", "l", "a", "c", "a", " ", "2">>,
      <<"P", "L", "A", "C", "A", " ", "D", "E", "L", " ", "T", "R", "A", "C", "T", "O">>,
      S_Contenedor, S_NUMERO_CONTENEDOR, <<"H", "o", "r", "a">> }

\* the lists of synonyms of the configuration
SynonymLists ==
    { main_file_columns.container, main_file_columns.plate, main_file_columns.time,
      main_file_columns.date, export_file_columns.container, export_file_columns.plate,
      export_file_columns.time }

\* rows of a sheet: a title, the labels of the export log (exact, in lower
\* case and padded, inside longer cells, without the time), the labels of
\* the destination, a record, an empty row
GridRows ==
    { TitleRow(3), ExportHeader, StandardHeader,
      <<Str(<<" ", "n", "u", "m", "e", "r", "o", " ", "c", "o", "n", "t", "e", "n", "e", "d", "o", "r">>),
        Str(<<"p", "l", "a", "c", "a", " ", "d", "e", " ", "c", "a", "r", "r", "e", "t", "a", " ">>),
        Str(<<"H", "o", "r", "a", " ", "d", "e", " ", "s", "a", "l", "i", "d", "a">>)>>,
      <<Str(S_NUMERO_CONTENEDOR \o <<" ", "1">>), Str(S_PLACA_DE_CARRETA), Null,
        Str(S_HORA_DE_SALIDA \o <<" ", "Q", "P">>)>>,
      <<Str(S_NUMERO_CONTENEDOR), Str(S_PLACA_DE_CARRETA), Null>>,
      <<Str(<<"M", "R", "K", "U", "1">>), Str(<<"T", "1">>), Str(<<"1", "4", ":", "0", "5">>)>>,
      <<Null, Null, Null>> }

\* sheets: short ones of every make-up, and the labels of the export log
\* as the last row and as the first row beyond the rows searched
Grids ==
    Seqs(GridRows, 0, MaxGridRows)
    \cup {[i \in 1..n |-> <<Null, Null, Null>>] \o <<ExportHeader>> :
             n \in {max_header_search_rows - 1, max_header_search_rows}}

Calls ==
    {[fn |-> "normalize_text", text |-> x] : x \in TextInputs}
    \cup {[fn |-> "normalize_time", time_val |-> x] : x \in TimeInputs}
    \cup {[fn |-> "fmt_time", time_val |-> x] : x \in {y \in TimeInputs : ~pd_isna(y)}}
    \cup {[fn |-> "find_column_by_patterns", columns |-> c, patterns |-> p] :
             c \in Seqs(Labels, 0, MaxCols), p \in SynonymLists}
    \cup {[fn |-> "find_header_row", grid |-> g, required_patterns |-> export_required_patterns] :
             g \in Grids}
    \cup {[fn |-> "find_header_row_auto", grid |-> g, essential_headers |-> h] :
             g \in Grids, h \in {src_essential_headers, dest_essential_headers}}

InitCalls ==
    /\ call \in Calls
    /\ result = NoResult
    /\ pc = "call"
    /\ main_file = <<>>
    /\ export_file_path = <<>>
    /\ export_file = <<>>
    /\ days_to_process = <<>>
    /\ main_df = NoDf
    /\ day_idx = 1
    /\ target_date = NaT
    /\ export_df = <<>>
    /\ lookup = EmptyLookup
    /\ total_updates = 0
    /\ output_file = NoFile
    /\ attempts = <<>>
    /\ auto = NoRun
    /\ heap = <<>>
    /\ cache = EmptyLookup
    /\ loads = <<>>

\* the variables of the runs, which a single call leaves alone
run_vars ==
    <<main_file, export_file_path, export_file, days_to_process, main_df, day_idx,
      target_date, export_df, lookup, total_updates, output_file, attempts, auto>>

Returned(value) == [done |-> TRUE, value |-> value]

\* self.normalize_text(text)
CallNormalizeText ==
    /\ pc = "call" /\ call.fn = "normalize_text"
    /\ result' = Returned(normalize_text(call.text))
    /\ pc' = "returned"
    /\ UNCHANGED <<call, run_vars, cache_vars>>

\* self.normalize_time(time_val)
CallNormalizeTime ==
    /\ pc = "call" /\ call.fn = "normalize_time"
    /\ result' = Returned(normalize_time(call.time_val))
    /\ pc' = "returned"
    /\ UNCHANGED <<call, run_vars, cache_vars>>

\* fmt_time of the lookup loop of update_export_times, for a time_val that
\* is not null
CallFmtTime ==
    /\ pc = "call" /\ call.fn = "fmt_time"
    /\ result' = Returned(fmt_time_auto(call.time_val))
    /\ pc' = "returned"
    /\ UNCHANGED <<call, run_vars, cache_vars>>

\* self.find_column_by_patterns(df, patterns, col_type)
CallFindColumnByPatterns ==
    /\ pc = "call" /\ call.fn = "find_column_by_patterns"
    /\ result' = Returned(find_column_by_patterns(call.columns, call.patterns))
    /\ pc' = "returned"
    /\ UNCHANGED <<call, run_vars, cache_vars>>

\* self.find_header_row(df_raw, required_patterns)
CallFindHeaderRow ==
    /\ pc = "call" /\ call.fn = "find_header_row"
    /\ result' = Returned(find_header_row(call.grid, call.required_patterns))
    /\ pc' = "returned"
    /\ UNCHANGED <<call, run_vars, cache_vars>>

\* find_header_row(file_path, sheet_name, essential_headers) of the auto variant
CallFindHeaderRowAuto ==
    /\ pc = "call" /\ call.fn = "find_header_row_auto"
    /\ result' = Returned(find_header_row_strict(call.grid, call.essential_headers))
    /\ pc' = "returned"
    /\ UNCHANGED <<call, run_vars, cache_vars>>

NextCalls ==
    \/ CallNormalizeText
    \/ CallNormalizeTime
    \/ CallFmtTime
    \/ CallFindColumnByPatterns
    \/ CallFindHeaderRow
    \/ CallFindHeaderRowAuto

SpecCalls == InitCalls /\ [][NextCalls]_vars

(***************************************************************************)
(* The table cache: ContainerTimeUpdater._load_excel_cached.  A table is   *)
(* an object on the heap; whoever holds its reference can change it.       *)
(***************************************************************************)
MaxLoads == 3

\* the reference returned by a call that raised
NoRef == 0

\* cache_key = f"{file_path}_{sheet_name}_{header_row}"
cache_key(file_path, sheet_name, header_row) ==
    file_path \o <<"_">> \o sheet_name \o <<"_">> \o <<Digits[header_row + 1]>>

\* a cache that keeps the table it hands to the first caller
load_and_cache_shared(h, c, key, df) ==
    [heap |-> Append(h, df), cache |-> dict_set(c, key, Len(h) + 1), df |-> Len(h) + 1]

\* self._cache[cache_key] = df.copy(); return df
load_and_cache(h, c, key, df) ==
    [heap |-> h \o <<df, df>>, cache |-> dict_set(c, key, Len(h) + 2), df |-> Len(h) + 1]

\* the uncached branch: pd.read_excel of the sheet at position si, which
\* raises when the workbook has no such sheet
read_and_cache(h, c, key, book, si, header_row) ==
    IF si = NoCol THEN [heap |-> h, cache |-> c, df |-> NoRef]
    ELSE load_and_cache(h, c, key, read_excel(book[si].grid, header_row))

\* _load_excel_cached on the heap h and the cache c: the heap and the cache
\* after the call and the reference returned
load_excel_cached(h, c, key, book, sheet_name, header_row) ==
    IF key \in DOMAIN c
    THEN [heap |-> Append(h, h[c[key]]), cache |-> c, df |-> Len(h) + 1]
    ELSE read_and_cache(h, c, key, book, sheet_index(book, sheet_name), header_row)

\* the entry of the history for a call: its key, the reference returned,
\* the contents of the table at the return, and whether a table returned
\* earlier for the key had been changed by then
Loaded(key, r) ==
    [key |-> key, df |-> r.df,
     contents |-> IF r.df = NoRef THEN <<>> ELSE r.heap[r.df],
     after_change |-> \E i \in 1..Len(loads) :
                          /\ loads[i].key = key /\ loads[i].df # NoRef
                          /\ heap[loads[i].df] # loads[i].contents]

\* what a holder of a table may do to it: df.at[0, first column] = 'X', or
\* df.drop(index 0, inplace=True)
changed_tables(df) ==
    IF df.rows = <<>> THEN {}
    ELSE { [df EXCEPT !.rows[1][1] = Str(<<"X">>)], [df EXCEPT !.rows = Tail(df.rows)] }

InitCache ==
    /\ pc = "cache"
    /\ export_file_path = ExportMay
    /\ export_file = Book(ScenarioExportRows)
    /\ heap = <<>>
    /\ cache = EmptyLookup
    /\ loads = <<>>
    /\ main_file = <<>>
    /\ days_to_process = <<>>
    /\ main_df = NoDf
    /\ day_idx = 1
    /\ target_date = NaT
    /\ export_df = <<>>
    /\ lookup = EmptyLookup
    /\ total_updates = 0
    /\ output_file = NoFile
    /\ attempts = <<>>
    /\ auto = NoRun
    /\ call = NoCall
    /\ result = NoResult

\* df = self._load_excel_cached(file_path, sheet_name, header_row)
LoadExcelCached ==
    /\ pc = "cache"
    /\ Len(loads) < MaxLoads
    /\ \E sheet_name \in {D14, <<"9", "9">>}, header_row \in {0, 1} :
          \E r \in {load_excel_cached(heap, cache,
                                      cache_key(export_file_path, sheet_name, header_row),
                                      export_file, sheet_name, header_row)} :
              /\ heap' = r.heap
              /\ cache' = r.cache
              /\ loads' = Append(loads,
                                 Loaded(cache_key(export_file_path, sheet_name, header_row), r))
    /\ UNCHANGED <<run_vars, pc, calls>>

\* a caller changes a table it was handed
ChangeTable ==
    /\ pc = "cache"
    /\ \E i \in 1..Len(loads) :
          /\ loads[i].df # NoRef
          /\ \E df \in changed_tables(heap[loads[i].df]) :
                heap' = [heap EXCEPT ![loads[i].df] = df]
    /\ UNCHANGED <<run_vars, pc, calls, cache, loads>>

NextCache ==
    \/ LoadExcelCached
    \/ ChangeTable

SpecCache == InitCache /\ [][NextCache]_vars

(***************************************************************************)
(* Properties.  The history variables attempts and auto record what every  *)
(* call was given and what it returned, so each property is a predicate on *)
(* the state.                                                               *)
(***************************************************************************)
\* the days of the run whose reconcile pass has been made
Passes == {n \in 1..Len(attempts) : attempts[n].stage = "update"}

\* whether update_export_times got as far as its matching loop
AutoMatched == auto.status \in {"saved", "unchanged"}

\* the fields of a destination record; every sheet of the inputs holds
\* them in this order, whatever its labels are
ContainerOf(row) == row[1]

PlateOf(row) == row[2]

TimeOf(row) == row[3]

DateOf(row) == row[4]

\* the default labels of the destination sheet
StandardLabels == <<S_Contenedor, S_Placa2, S_HrSalidaQP, S_Fecha>>

\* C1 (as stated): a reconcile pass, of either variant, leaves the time of
\* every record whose date is not the target date as it was, whether or not
\* the record's key is in the lookup.
C1_OtherDateUnchanged ==
    /\ \A n \in Passes :
          \A i \in DOMAIN attempts[n].rows_start :
              record_date(DateOf(attempts[n].rows_start[i])) # attempts[n].target_date
              => TimeOf(attempts[n].rows_end[i]) = TimeOf(attempts[n].rows_start[i])
    /\ AutoMatched =>
          \A i \in DOMAIN auto.rows_before :
              to_date_coerce(DateOf(auto.rows_before[i])) # auto.processing_date
              => TimeOf(auto.rows_after[i]) = TimeOf(auto.rows_before[i])

\* the part of C1 the code keeps: the auto variant, and the class variant
\* whenever the date column was mapped
C1_OtherDateUnchangedWhenMapped ==
    /\ \A n \in Passes :
          \A i \in DOMAIN attempts[n].rows_start :
              /\ main_df.column_mapping.date # NoCol
              /\ record_date(DateOf(attempts[n].rows_start[i])) # attempts[n].target_date
              => TimeOf(attempts[n].rows_end[i]) = TimeOf(attempts[n].rows_start[i])
    /\ AutoMatched =>
          \A i \in DOMAIN auto.rows_before :
              to_date_coerce(DateOf(auto.rows_before[i])) # auto.processing_date
              => TimeOf(auto.rows_after[i]) = TimeOf(auto.rows_before[i])

\* the key of a destination record
KeyOf(row) == <<normalize_text(ContainerOf(row)), normalize_text(PlateOf(row))>>

\* the four conditions of C2 for a record, a lookup and a target date
Eligible(row, lk, date) ==
    /\ needs_update(TimeOf(row))
    /\ normalize_text(PlateOf(row)) # <<>>
    /\ record_date(DateOf(row)) = date
    /\ KeyOf(row) \in DOMAIN lk

\* C2 (as stated): update_times_optimized writes lookup[key] into the time
\* of a record exactly when the record's time is blank, its plate is not
\* empty, its date resolves to the target date and its key is in the
\* lookup; every other record is left as it was, and the count returned is
\* the number of records written.
C2_WritesExactlyEligible ==
    \A n \in Passes :
        /\ \A i \in DOMAIN attempts[n].rows_start :
              attempts[n].rows_end[i] =
                  IF Eligible(attempts[n].rows_start[i], attempts[n].lookup,
                              attempts[n].target_date)
                  THEN [attempts[n].rows_start[i] EXCEPT
                           ![3] = Str(attempts[n].lookup[KeyOf(attempts[n].rows_start[i])])]
                  ELSE attempts[n].rows_start[i]
        /\ attempts[n].updates =
              Cardinality({i \in DOMAIN attempts[n].rows_start :
                              Eligible(attempts[n].rows_start[i], attempts[n].lookup,
                                       attempts[n].target_date)})

\* C2 holds of the runs in which all four columns were mapped
C2_WritesExactlyEligibleWhenMapped ==
    (main_df.ok /\ \A f \in DOMAIN main_df.column_mapping : main_df.column_mapping[f] # NoCol)
    => C2_WritesExactlyEligible

\* the run of the scenario of C3, with the destination record dated
\* date_cell in a sheet labelled Contenedor, Placa 2, Hr salida QP, Fecha
ScenarioRun(date_cell) ==
    /\ 1 \in Passes
    /\ main_df.columns = StandardLabels
    /\ attempts[1].day = D14
    /\ export_file_path = ExportMay
    /\ export_file = Book(ScenarioExportRows)
    /\ attempts[1].rows_start = <<[ScenarioDestRows[1] EXCEPT ![4] = date_cell]>>

\* C3 (corrected): for the destination record {"MRKU-546694 7", "T 123-45",
\* 2025-05-14, no time} of a sheet with the default labels and the record {"MRKU5466947", "T12345", "14:05"} of
\* sheet "14" of SALIDA_2025_05.xlsx, the pass for 2025-05-14 sets the
\* record's time to "14:05:00" and returns 1; with the destination date
\* 2025-05-15 it returns 0 and leaves the record as it was.
C3_ScenarioTimeHMS ==
    /\ ScenarioRun(Day14) =>
          /\ attempts[1].target_date = Date(2025, 5, 14)
          /\ attempts[1].updates = 1
          /\ TimeOf(attempts[1].rows_end[1])
                = Str(<<"1", "4", ":", "0", "5", ":", "0", "0">>)
    /\ ScenarioRun(Day15) =>
          /\ attempts[1].target_date = Date(2025, 5, 14)
          /\ attempts[1].updates = 0
          /\ attempts[1].rows_end = attempts[1].rows_start

\* C3 (as stated): the same, the time written being "14:05".
C3_ScenarioTimeHM ==
    /\ ScenarioRun(Day14) =>
          /\ attempts[1].target_date = Date(2025, 5, 14)
          /\ attempts[1].updates = 1
          /\ TimeOf(attempts[1].rows_end[1]) = Str(<<"1", "4", ":", "0", "5">>)
    /\ ScenarioRun(Day15) =>
          /\ attempts[1].target_date = Date(2025, 5, 14)
          /\ attempts[1].updates = 0
          /\ attempts[1].rows_end = attempts[1].rows_start

\* the scenario has run: its pass wrote the record
C3_Witness == ScenarioRun(Day14) /\ attempts[1].written = {1}

\* a time that is not null, not blank after trimming and, after trimming,
\* none of NAN, NONE, NULL in any letter case
Populated(cell) ==
    /\ ~pd_isna(cell)
    /\ str_strip(py_str(cell)) # <<>>
    /\ str_upper(str_strip(py_str(cell))) \notin blank_markers

\* the same with the words compared as they stand, untrimmed
PopulatedUntrimmed(cell) ==
    /\ ~pd_isna(cell)
    /\ str_strip(py_str(cell)) # <<>>
    /\ str_upper(py_str(cell)) \notin blank_markers

\* C4 (corrected): update_times_optimized leaves the time of a record as it
\* was when that time is not null, not blank after trimming and, after
\* trimming, none of NAN, NONE, NULL (in any letter case), for every lookup
\* and target date.
C4_PopulatedTimeKept ==
    \A n \in Passes :
        \A i \in DOMAIN attempts[n].rows_start :
            Populated(TimeOf(attempts[n].rows_start[i]))
            => TimeOf(attempts[n].rows_end[i]) = TimeOf(attempts[n].rows_start[i])

\* C4 (as stated): the same, the words NAN, NONE, NULL compared with the
\* time as it stands, so that a padded " nan " counts as populated.
C4_UntrimmedTimeKept ==
    \A n \in Passes :
        \A i \in DOMAIN attempts[n].rows_start :
            PopulatedUntrimmed(TimeOf(attempts[n].rows_start[i]))
            => TimeOf(attempts[n].rows_end[i]) = TimeOf(attempts[n].rows_start[i])

\* a pass met a record with a time, of the target date and with its key in
\* the lookup
C4_Witness ==
    \E n \in Passes :
        \E i \in DOMAIN attempts[n].rows_start :
            /\ Populated(TimeOf(attempts[n].rows_start[i]))
            /\ record_date(DateOf(attempts[n].rows_start[i])) = attempts[n].target_date
            /\ KeyOf(attempts[n].rows_start[i]) \in DOMAIN attempts[n].lookup

\* C5: update_times_optimized called twice in a row on the same table with
\* the same lookup and target date returns 0 the second time and changes no
\* record: of two consecutive passes of a run with equal lookup and date,
\* and of a second call made right after any pass.
C5_SecondCallIdle ==
    \A n \in Passes :
        /\ (n + 1 \in Passes
               /\ attempts[n + 1].lookup = attempts[n].lookup
               /\ attempts[n + 1].target_date = attempts[n].target_date)
           => /\ attempts[n + 1].rows_start = attempts[n].rows_end
              /\ attempts[n + 1].updates = 0
              /\ attempts[n + 1].rows_end = attempts[n].rows_end
        /\ \E again \in {update_times_optimized(
                              [main_df EXCEPT !.rows = attempts[n].rows_end],
                              attempts[n].lookup, attempts[n].target_date)} :
              again.updates = 0 /\ again.rows = attempts[n].rows_end

\* two consecutive passes with the same lookup and date, the first of which
\* wrote a record
C5_Witness ==
    \E n \in Passes :
        /\ n + 1 \in Passes
        /\ attempts[n + 1].lookup = attempts[n].lookup
        /\ attempts[n + 1].target_date = attempts[n].target_date
        /\ attempts[n].written # {}

\* C6: in a run of process_multiple_days, a record whose time one day's pass
\* filled is not written by any later day's pass and keeps that time, so
\* every record is written at most once in a run.
C6_FilledOnce ==
    \A n \in Passes, m \in Passes :
        n < m =>
            \A i \in attempts[n].written :
                /\ i \notin attempts[m].written
                /\ TimeOf(attempts[m].rows_start[i]) = TimeOf(attempts[n].rows_end[i])
                /\ TimeOf(attempts[m].rows_end[i]) = TimeOf(attempts[n].rows_end[i])

\* a later day whose lookup holds, under another time, the key of a record
\* an earlier day filled, in a run whose date gate lets the record through
C6_Witness ==
    \E n \in Passes, m \in Passes :
        /\ n < m
        /\ main_df.column_mapping.date = NoCol
        /\ \E i \in attempts[n].written :
              /\ KeyOf(attempts[n].rows_start[i]) \in DOMAIN attempts[m].lookup
              /\ Str(attempts[m].lookup[KeyOf(attempts[n].rows_start[i])])
                    # TimeOf(attempts[n].rows_end[i])

\* the days whose lookup has been built
Built == {n \in 1..Len(attempts) : attempts[n].stage \in {"lookup", "update"}}

\* an export record with all three normalised values non-empty
CompleteExport(r) ==
    /\ normalize_text(r.container) # <<>>
    /\ normalize_text(r.plate) # <<>>
    /\ normalize_time(r.time) # <<>>

ExportKey(r) == <<normalize_text(r.container), normalize_text(r.plate)>>

\* C7: the keys of the lookup create_normalized_lookup returns are exactly
\* the (container_norm, plate_norm) pairs of the export records whose
\* normalised container, plate and time are all non-empty; both components
\* of every key and every value are non-empty.
C7_LookupKeys ==
    \A n \in Built :
        /\ DOMAIN attempts[n].lookup =
              {ExportKey(attempts[n].export_df[k]) :
                  k \in {j \in DOMAIN attempts[n].export_df :
                            CompleteExport(attempts[n].export_df[j])}}
        /\ \A key \in DOMAIN attempts[n].lookup :
              key[1] # <<>> /\ key[2] # <<>> /\ attempts[n].lookup[key] # <<>>

\* a lookup built from a sheet holding a record to exclude, for its
\* container or plate or for its time
C7_Witness ==
    \E n \in Built :
        /\ \E j \in DOMAIN attempts[n].export_df :
              CompleteExport(attempts[n].export_df[j])
        /\ \E j \in DOMAIN attempts[n].export_df :
              ~CompleteExport(attempts[n].export_df[j])

\* a record the lookup loop of update_export_times takes
CompleteAuto(r) ==
    /\ normalize_auto(r.container) # <<>>
    /\ normalize_auto(r.plate) # <<>>
    /\ ~pd_isna(r.time)
    /\ fmt_time_auto(r.time) # <<>>

AutoKey(r) == <<normalize_auto(r.container), normalize_auto(r.plate)>>

\* C8: every key of the lookup maps to the normalised time of the last
\* complete export record of the sheet with that key, in
\* create_normalized_lookup and in the lookup loop of update_export_times.
C8_LastWriteWins ==
    /\ \A n \in Built :
          \A key \in DOMAIN attempts[n].lookup :
              \E ks \in {{k \in DOMAIN attempts[n].export_df :
                             /\ CompleteExport(attempts[n].export_df[k])
                             /\ ExportKey(attempts[n].export_df[k]) = key}} :
                  /\ ks # {}
                  /\ attempts[n].lookup[key]
                        = normalize_time(attempts[n].export_df[SetMax(ks)].time)
    /\ AutoMatched =>
          \A key \in DOMAIN auto.departure_times :
              \E ks \in {{k \in DOMAIN auto.export_rows :
                             /\ CompleteAuto(auto.export_rows[k])
                             /\ AutoKey(auto.export_rows[k]) = key}} :
                  /\ ks # {}
                  /\ auto.departure_times[key]
                        = fmt_time_auto(auto.export_rows[SetMax(ks)].time)

\* a lookup built from two complete records of one key and different times
C8_Witness ==
    \E n \in Built :
        \E j \in DOMAIN attempts[n].export_df, k \in DOMAIN attempts[n].export_df :
            /\ j < k
            /\ CompleteExport(attempts[n].export_df[j])
            /\ CompleteExport(attempts[n].export_df[k])
            /\ ExportKey(attempts[n].export_df[j]) = ExportKey(attempts[n].export_df[k])
            /\ normalize_time(attempts[n].export_df[j].time)
                  # normalize_time(attempts[n].export_df[k].time)

\* the Gregorian calendar: whether year y, month m, day d name a date
ValidCalendarDate(y, m, d) ==
    /\ y \in 1..9999
    /\ m \in 1..12
    /\ d >= 1
    /\ d <= (IF m \in {1, 3, 5, 7, 8, 10, 12} THEN 31
             ELSE IF m # 2 THEN 30
             ELSE IF y % 400 = 0 \/ (y % 4 = 0 /\ y % 100 # 0) THEN 29
             ELSE 28)

\* a day of the run that stopped at the extraction of its date
DateError(n) == attempts[n].stage = "extract" /\ attempts[n].error

\* C9: extract_date_from_export_filename fails when the file name holds no
\* YYYY_MM token or (year, month, day) is no calendar date, and returns
\* exactly that date otherwise; a day of process_multiple_days that fails
\* so has loaded no export sheet, built no lookup and changed no record.
C9_DateExtraction ==
    \A n \in 1..Len(attempts) :
        \E tok \in {re_search_ym(basename(export_file_path))},
           day \in {py_int(attempts[n].day)} :
            IF tok.found /\ ValidCalendarDate(tok.year, tok.month, day)
            THEN /\ ~DateError(n)
                 /\ attempts[n].target_date = Date(tok.year, tok.month, day)
            ELSE /\ DateError(n)
                 /\ attempts[n].finished
                 /\ attempts[n].export_df = <<>>
                 /\ attempts[n].lookup = EmptyLookup
                 /\ attempts[n].updates = 0
                 /\ attempts[n].rows_end = attempts[n].rows_start
                 /\ (n = Len(attempts) => main_df.rows = attempts[n].rows_start)

\* a run over a file of a 30-day month: day 31 failed at the extraction,
\* another day got its date
C9_Witness ==
    /\ re_search_ym(basename(export_file_path)).found
    /\ re_search_ym(basename(export_file_path)).month = 4
    /\ \E n \in 1..Len(attempts) : DateError(n) /\ py_int(attempts[n].day) = 31
    /\ \E n \in 1..Len(attempts) : attempts[n].target_date = Date(2025, 4, 14)

\* C10: an error of one day's processing is caught and the later days of
\* days_to_process are still attempted, in order; when the loop is over the
\* run is at its save step, and it ends with the file saved.
C10_LaterDaysAttempted ==
    /\ Len(attempts) <= Len(days_to_process)
    /\ \A n \in 1..Len(attempts) : attempts[n].day = days_to_process[n]
    /\ \A n \in 1..(Len(attempts) - 1) : attempts[n].finished
    /\ pc \in {"save", "done"} =>
          /\ Len(attempts) = Len(days_to_process)
          /\ \A n \in 1..Len(attempts) : attempts[n].finished
    /\ (main_df.ok /\ day_idx > Len(days_to_process)) => pc \in {"save", "done"}
    /\ pc = "done" => output_file.written
    /\ pc = "failed" => attempts = <<>>

\* a finished run in which a day failed and a later day was reconciled
C10_Witness ==
    /\ pc = "done"
    /\ \E n \in 1..Len(attempts), m \in 1..Len(attempts) :
          n < m /\ attempts[n].error /\ m \in Passes /\ attempts[m].written # {}

\* C11 (as stated): a day that fails ends the run's loop, so that no day
\* listed after a failing day is begun.
C11_FailureAbortsLaterDays ==
    \A n \in 1..Len(attempts), m \in 1..Len(attempts) :
        n < m => ~attempts[n].error

\* C11 (corrected): a day that fails ends the processing of that day only;
\* in a run that has finished, every day listed after a failing day was
\* processed to its own end, a reconcile pass or an error of its own.
C11_FailureEndsOnlyItsDay ==
    pc = "done" =>
        \A n \in 1..Len(attempts), m \in 1..Len(days_to_process) :
            (n < m /\ attempts[n].error) =>
                /\ m <= Len(attempts)
                /\ attempts[m].finished
                /\ attempts[m].error \/ m \in Passes

\* a finished run whose first day had a sheet without header row and whose
\* next day was reconciled
C11_Witness ==
    /\ pc = "done"
    /\ Len(attempts) = 2
    /\ attempts[1].error /\ attempts[1].stage = "load"
    /\ 2 \in Passes

\* the sum of the update counts of the first n days, over those that
\* completed
RECURSIVE SumCompleted(_)
SumCompleted(n) ==
    IF n = 0 THEN 0
    ELSE SumCompleted(n - 1) + (IF n \in Passes THEN attempts[n].updates ELSE 0)

\* the records of the table in memory whose time is not the one loaded
ChangedSinceLoad(rows) ==
    {i \in DOMAIN rows : TimeOf(rows[i]) # TimeOf(load_and_prepare_main_file(main_file).rows[i])}

\* C12: in process_multiple_days every day starts from the table the day
\* before left, failed or not, and the table saved is the one the last day
\* left; the total is the sum of the counts of the days that completed and
\* the number of records whose time differs between load and save.
C12_UpdatesKeptAndCounted ==
    (main_df.ok /\ pc # "auto_done") =>
        /\ \A n \in 1..(Len(attempts) - 1) : attempts[n + 1].rows_start = attempts[n].rows_end
        /\ \A n \in 1..Len(attempts) :
              attempts[n].error => attempts[n].rows_end = attempts[n].rows_start
        /\ (attempts # <<>> /\ attempts[Len(attempts)].finished) =>
              main_df.rows = attempts[Len(attempts)].rows_end
        /\ pc \in {"save", "done"} =>
              /\ total_updates = SumCompleted(Len(attempts))
              /\ total_updates = Cardinality(ChangedSinceLoad(main_df.rows))
        /\ pc = "done" => output_file.rows = main_df.rows

\* a saved run of two days that each filled a record
C12_Witness ==
    /\ pc = "done"
    /\ Len(attempts) = 2
    /\ attempts[1].updates > 0
    /\ attempts[2].updates > 0
    /\ total_updates = 2

\* C13: normalize_text is idempotent: normalizing the text a call returned
\* gives that text again.
C13_NormalizeTextIdempotent ==
    (result.done /\ call.fn = "normalize_text") =>
        normalize_text(Str(result.value)) = result.value

\* a call that removed characters and kept others
C13_Witness ==
    /\ result.done /\ call.fn = "normalize_text"
    /\ call.text.t = "str"
    /\ result.value # <<>>
    /\ result.value # call.text.v
    /\ Len(result.value) < Len(call.text.v)

\* the characters A-Z and 0-9
AsciiUpperAlnum ==
    {"A", "B", "C", "D", "E", "F", "G", "H", "I", "J", "K", "L", "M",
     "N", "O", "P", "Q", "R", "S", "T", "U", "V", "W", "X", "Y", "Z",
     "0", "1", "2", "3", "4", "5", "6", "7", "8", "9"}

\* the text of a cell trimmed and upper-cased, without the characters that
\* are not in A-Z or 0-9
TrimmedUpperAlnum(text) ==
    SelectSeq(str_upper(str_strip(py_str(text))), LAMBDA c : c \in AsciiUpperAlnum)

\* C14: normalize_text returns the empty string for a null or blank input
\* and otherwise the input trimmed, upper-cased and without the characters
\* that are not ASCII letters or digits; the result holds only A-Z and 0-9,
\* "MRKU 546694-7" gives "MRKU5466947", and every call returns.
C14_NormalizeTextResult ==
    /\ (pc = "returned" /\ call.fn = "normalize_text") => result.done
    /\ (result.done /\ call.fn = "normalize_text") =>
          /\ \A i \in 1..Len(result.value) : result.value[i] \in AsciiUpperAlnum
          /\ pd_isna(call.text) => result.value = <<>>
          /\ (call.text.t = "str" /\ \A i \in 1..Len(call.text.v) : IsSpace(call.text.v[i])) =>
                result.value = <<>>
          /\ ~pd_isna(call.text) => result.value = TrimmedUpperAlnum(call.text)
          /\ call.text = Str(<<"M", "R", "K", "U", " ", "5", "4", "6", "6", "9", "4", "-", "7">>) =>
                result.value = <<"M", "R", "K", "U", "5", "4", "6", "6", "9", "4", "7">>

\* the call on "MRKU 546694-7" has returned "MRKU5466947"
C14_Witness ==
    /\ result.done /\ call.fn = "normalize_text"
    /\ call.text = Str(<<"M", "R", "K", "U", " ", "5", "4", "6", "6", "9", "4", "-", "7">>)
    /\ result.value = <<"M", "R", "K", "U", "5", "4", "6", "6", "9", "4", "7">>

\* round(v * 86400) of a float cell
RoundedSeconds(time_val) == (time_val.day_millis + 500) \div 1000

\* C15: for a number v with 0 <= v < 1, normalize_time and the numeric
\* branch of update_export_times take v as a fraction of a day: with
\* total_seconds = round(v * 86400) the result has the hours
\* total_seconds // 3600 and the minutes (total_seconds % 3600) // 60.
C15_FractionOfDay ==
    (result.done /\ call.fn \in {"normalize_time", "fmt_time"}
        /\ call.time_val.t = "float" /\ call.time_val.day_millis < 86400000) =>
        /\ Len(result.value) >= 5
        /\ SubSeq(result.value, 1, 5) =
              Fmt2(RoundedSeconds(call.time_val) \div 3600) \o <<":">>
                  \o Fmt2((RoundedSeconds(call.time_val) % 3600) \div 60)

\* a zero-padded time of day HH:MM:SS
IsClockText(v) ==
    /\ Len(v) = 8
    /\ v[3] = ":" /\ v[6] = ":"
    /\ \A i \in {1, 2, 4, 5, 7, 8} : IsDigit(v[i])
    /\ int_at(v, 1, 2) <= 23 /\ int_at(v, 4, 5) <= 59 /\ int_at(v, 7, 8) <= 59

\* HH:MM:SS, HH:MM, HH.MM.SS, HH.MM
PatternsInOrder ==
    << [sep |-> ":", groups |-> 3], [sep |-> ":", groups |-> 2],
       [sep |-> ".", groups |-> 3], [sep |-> ".", groups |-> 2] >>

\* whether the match of a pattern in a text has its fields in range
InRange(m) == m.found /\ m.hours <= 23 /\ m.minutes <= 59 /\ m.seconds <= 59

\* the patterns whose match in the text has its fields in range
PatternsInRange(text) ==
    {n \in 1..Len(PatternsInOrder) : InRange(re_search_time(text, PatternsInOrder[n]))}

\* the time text of the match of a pattern
ClockOfMatch(m) == Fmt2(m.hours) \o <<":">> \o Fmt2(m.minutes) \o <<":">> \o Fmt2(m.seconds)

\* C16: normalize_time always returns, and returns the empty string or a
\* zero-padded time with hours in 0..23 and minutes and seconds in 0..59;
\* for a string the patterns HH:MM:SS, HH:MM, HH.MM.SS, HH.MM are tried in
\* that order and the first whose match is in range gives the result; a
\* string that no pattern matches in range and that the generic parse does
\* not read gives the empty string.
C16_NormalizeTimeResult ==
    /\ (pc = "returned" /\ call.fn = "normalize_time") => result.done
    /\ (result.done /\ call.fn = "normalize_time") =>
          /\ result.value = <<>> \/ IsClockText(result.value)
          /\ call.time_val.t = "str" =>
                LET text == str_strip(call.time_val.v)
                    first == PatternsInRange(text)
                IN  /\ first # {} =>
                          result.value =
                              ClockOfMatch(re_search_time(text, PatternsInOrder[SetMin(first)]))
                    /\ (first = {} /\ pd_isna(pd_to_datetime(text))) => result.value = <<>>

\* "7:05:61" matches HH:MM:SS out of range and gives the time of HH:MM
C16_Witness ==
    /\ result.done /\ call.fn = "normalize_time"
    /\ call.time_val = Str(<<"7", ":", "0", "5", ":", "6", "1">>)
    /\ result.value = <<"0", "7", ":", "0", "5", ":", "0", "0">>

\* the synonyms equal to some label, and those inside some label, without
\* regard to case
SynonymsEqual(labels, patterns) ==
    {n \in 1..Len(patterns) : \E i \in 1..Len(labels) : labels[i] = str_upper(patterns[n])}

SynonymsInside(labels, patterns) ==
    {n \in 1..Len(patterns) :
        \E i \in 1..Len(labels) : str_contains(labels[i], str_upper(patterns[n]))}

\* the column two passes over upper-cased labels resolve: the first column
\* equal to the earliest synonym that equals a label; when no synonym
\* equals a label, the first column holding the earliest synonym that is
\* inside a label; NoCol when there is neither
TwoPasses(labels, patterns) ==
    IF SynonymsEqual(labels, patterns) # {}
    THEN SetMin({i \in 1..Len(labels) :
                    labels[i] = str_upper(patterns[SetMin(SynonymsEqual(labels, patterns))])})
    ELSE IF SynonymsInside(labels, patterns) # {}
    THEN SetMin({i \in 1..Len(labels) :
                    str_contains(labels[i],
                                 str_upper(patterns[SetMin(SynonymsInside(labels, patterns))]))})
    ELSE NoCol

\* C17 as stated: find_column_by_patterns returns the column equal, without
\* regard to case, to the earliest synonym that equals a column label, even
\* when an earlier synonym is inside another label; only when no synonym
\* equals a label, the first column holding a synonym in the order of the
\* synonyms; None when neither pass matches.
C17_TwoPassesOverLabels ==
    (result.done /\ call.fn = "find_column_by_patterns") =>
        result.value =
            TwoPasses([i \in 1..Len(call.columns) |-> str_upper(call.columns[i])], call.patterns)

\* C17 amended: the two passes compare the synonyms with the column labels
\* after trimming the blanks around each label.
C17_TwoPassesOverTrimmedLabels ==
    (result.done /\ call.fn = "find_column_by_patterns") =>
        result.value =
            TwoPasses([i \in 1..Len(call.columns) |-> str_upper(str_strip(call.columns[i]))],
                      call.patterns)

\* the plate among "X Placa 2" and "Placa": the first synonym, "Placa 2", is
\* inside the first label, the second synonym equals the second label
C17_Witness ==
    /\ result.done /\ call.fn = "find_column_by_patterns"
    /\ call.patterns = main_file_columns.plate
    /\ call.columns = << <<"X", " ", "P", "l", "a", "c", "a", " ", "2">>,
                         <<"P", "l", "a", "c", "a">> >>
    /\ result.value = 2

\* the number of rows header location looks at, K = 20
SearchedRows(grid) == IF Len(grid) < 20 THEN Len(grid) ELSE 20

\* the trimmed, lower-cased values of the cells of a row that are not empty
CellValues(row) ==
    {str_lower(str_strip(py_str(row[j]))) :
        j \in {k \in 1..Len(row) : ~pd_isna(row[k]) /\ str_strip(py_str(row[k])) # <<>>}}

\* strict policy: every required token is the whole value of some cell
StrictQualifies(row, tokens) ==
    \A n \in 1..Len(tokens) : str_lower(str_strip(tokens[n])) \in CellValues(row)

\* the required tokens inside some cell of a row, without regard to case
TokensInside(row, tokens) ==
    {n \in 1..Len(tokens) :
        \E j \in 1..Len(row) :
            ~pd_isna(row[j]) /\ str_contains(str_upper(py_str(row[j])), str_upper(tokens[n]))}

\* fuzzy policy: at least 0.6 of the required tokens are inside some cell
FuzzyQualifies(row, tokens) == 10 * Cardinality(TokensInside(row, tokens)) >= 6 * Len(tokens)

\* the index, from 0, of the first of a set of rows, NoRow for the error
FirstRowOrError(rows) == IF rows = {} THEN NoRow ELSE SetMin(rows) - 1

\* C19: header location returns the smallest index among the first K = 20
\* rows of a row that satisfies the policy, and raises when none of these
\* rows does: all tokens as whole trimmed, lower-cased cell values in the
\* auto variant's find_header_row, at least 0.6 of the tokens inside some
\* cell in ContainerTimeUpdater.find_header_row.
C19_FirstQualifyingRow ==
    /\ (result.done /\ call.fn = "find_header_row_auto") =>
          result.value =
              FirstRowOrError({i \in 1..SearchedRows(call.grid) :
                                  StrictQualifies(call.grid[i], call.essential_headers)})
    /\ (result.done /\ call.fn = "find_header_row") =>
          result.value =
              FirstRowOrError({i \in 1..SearchedRows(call.grid) :
                                  FuzzyQualifies(call.grid[i], call.required_patterns)})

\* the labels in the twenty-first row of a sheet: the fuzzy search raises
C19_Witness ==
    /\ result.done /\ call.fn = "find_header_row"
    /\ Len(call.grid) = 21
    /\ FuzzyQualifies(call.grid[21], call.required_patterns)
    /\ result.value = NoRow

\* whether some synonym of a list matches a label of a table: it equals the
\* label or is inside it, without regard to case
SomeSynonymMatches(columns, patterns) ==
    SynonymsInside([i \in 1..Len(columns) |-> str_upper(str_strip(columns[i]))], patterns) # {}

\* the labels of the destination table as read
MainColumns == read_excel(main_file, 1).columns

\* the sheet of the export log an attempt reads, and whether it has one
\* with a header row
ExportGrid(n) == export_file[sheet_index(export_file, attempts[n].day)].grid

ExportHeaderFound(n) ==
    /\ sheet_index(export_file, attempts[n].day) # NoCol
    /\ find_header_row(ExportGrid(n), export_required_patterns) # NoRow

\* the labels of the export table an attempt reads
ExportColumns(n) ==
    read_excel(ExportGrid(n), find_header_row(ExportGrid(n), export_required_patterns)).columns

\* C18: loading raises the missing-column error exactly when a required
\* field has no synonym that matches a column label: the destination table
\* (required: plate, time) and the export table (required: container,
\* plate, time) resolve every field for which some synonym matches a label,
\* and fail only when no synonym of a required field matches any label.
C18_MissingColumnOnlyWhenUnmatched ==
    /\ pc \notin {"start", "auto_done"} =>
          /\ ~main_df.ok <=>
                \E f \in {"plate", "time"} : ~SomeSynonymMatches(MainColumns, main_file_columns[f])
          /\ main_df.ok =>
                \A f \in DOMAIN main_file_columns :
                    SomeSynonymMatches(MainColumns, main_file_columns[f]) =>
                        main_df.column_mapping[f] # NoCol
    /\ \A n \in 1..Len(attempts) :
          (attempts[n].stage # "extract" /\ ExportHeaderFound(n)) =>
              ((attempts[n].stage = "load" /\ attempts[n].error) <=>
                  \E f \in DOMAIN export_file_columns :
                      ~SomeSynonymMatches(ExportColumns(n), export_file_columns[f]))

\* the orders in which the records of a set can be visited
Orders(S) ==
    {order \in [1..Cardinality(S) -> S] :
        \A i, j \in 1..Cardinality(S) : order[i] = order[j] => i = j}

\* the records pass n visits: those the mask selects in the table it starts
\* from
Visited(n) ==
    {i \in 1..Len(attempts[n].rows_start) :
        needs_update(attempts[n].rows_start[i][main_df.column_mapping.time])}

\* the pass n run again over its records in another order
PassInOrder(n, order) ==
    update_loop([rows |-> attempts[n].rows_start, updates |-> 0, written |-> {}],
                order, 1, main_df.column_mapping, attempts[n].lookup,
                attempts[n].target_date)

\* C20: the result of a reconcile pass does not depend on the order in which
\* the destination records are visited: with the lookup and the target date
\* of the pass, every order over its records gives the table and the count
\* the pass gave.
C20_OrderIndependent ==
    \A n \in Passes :
        \A order \in Orders(Visited(n)) :
            /\ PassInOrder(n, order).rows = attempts[n].rows_end
            /\ PassInOrder(n, order).updates = attempts[n].updates

\* a pass over several records that filled two of them
C20_Witness ==
    \E n \in Passes :
        /\ Cardinality(Visited(n)) >= 2
        /\ Cardinality(attempts[n].written) = 2

\* C21: the table cache hands out copies: whatever the callers do to the
\* tables they were handed, the first call included, every later call of
\* _load_excel_cached with the same key returns the contents the earlier
\* calls with that key returned.
C21_CacheHandsOutCopies ==
    \A i, j \in 1..Len(loads) :
        (i < j /\ loads[i].key = loads[j].key /\ loads[i].df # NoRef) =>
            /\ loads[j].df # NoRef
            /\ loads[j].contents = loads[i].contents
            /\ loads[j].df # loads[i].df
            /\ loads[j].df # cache[loads[j].key]

\* a second call for a key after the table of the first, uncached call was
\* changed
C21_Witness ==
    /\ Len(loads) >= 2
    /\ loads[2].key = loads[1].key
    /\ loads[1].df # NoRef
    /\ loads[2].after_change
    /\ heap[loads[1].df] # loads[1].contents

\* a cell that is missing: null, or text that is blank
MissingCell(cell) == pd_isna(cell) \/ (cell.t = "str" /\ str_strip(cell.v) = <<>>)

\* the export records of the auto run none of whose three cells is missing
CompleteRecords ==
    {i \in 1..Len(auto.export_rows) :
        \A f \in {"container", "plate", "time"} : ~MissingCell(auto.export_rows[i][f])}

\* C22: in update_export_times an export record whose container, plate or
\* time cell is missing contributes no entry to departure_times: every key
\* of the lookup is the key of a record with all three cells present.
C22_MissingCellsGiveNoEntry ==
    auto.status \in {"saved", "unchanged"} =>
        \A key \in DOMAIN auto.departure_times :
            \E i \in CompleteRecords :
                key = <<normalize_auto(auto.export_rows[i].container),
                        normalize_auto(auto.export_rows[i].plate)>>

\* the header row of the destination sheet as the auto variant finds it
DestHeaderRow == find_header_row_strict(main_file, dest_essential_headers)

\* the four columns the auto variant requires are labels of the destination
DestColumnsPresent ==
    /\ DestHeaderRow # NoRow
    /\ \A n \in 1..Len(dest_essential_headers) :
          IndexOf(read_excel(main_file, DestHeaderRow).columns, dest_essential_headers[n]) # NoCol

\* the file name gives a year and a month and the day is one of that month
DateValid == processing_date_auto(export_file_path, days_to_process[1]).ok

\* a sheet of the export log for the day has the header row
SourceHeaderFound ==
    source_sheet_auto(export_file, days_to_process[1], src_essential_headers) # NoCol

\* C23: update_export_times writes the destination file only after a
\* matching loop that made at least one update.  When a header row is not
\* found, a required column is missing, the date is invalid or the file
\* name has no year and month, it returns (0, None) and the file is as it
\* was; when matching ends without updates it returns (0, main_file_path)
\* and the file is as it was.
C23_WriteOnlyAfterUpdates ==
    [][(pc = "start" /\ pc' = "auto_done") =>
          /\ auto'.status = "error" <=>
                ~(DestHeaderRow # NoRow /\ DestColumnsPresent /\ DateValid /\ SourceHeaderFound)
          /\ auto'.status = "error" => (auto'.updates_count = 0 /\ main_file' = main_file)
          /\ auto'.status = "unchanged" => (auto'.updates_count = 0 /\ main_file' = main_file)
          /\ auto'.status = "saved" => auto'.updates_count > 0
          /\ main_file' # main_file => auto'.status = "saved"]_vars

\* an auto run whose matching loop had a lookup and made no update
C23_Witness ==
    /\ pc = "auto_done"
    /\ auto.status = "unchanged"
    /\ auto.updates_count = 0
    /\ DOMAIN auto.departure_times # {}
    /\ main_file[auto.header_row + 2] = auto.rows_before[1]

\* C24: update_times_optimized changes nothing but the time field of the
\* records it counts: after a pass the table has the records it had, in
\* their order, with every field but the time as it was; the time of a
\* record that was not counted is as it was; and the lookup is the one the
\* pass was given.
C24_OnlyCountedTimesChange ==
    /\ \A n \in Passes :
          /\ Len(attempts[n].rows_end) = Len(attempts[n].rows_start)
          /\ Cardinality(attempts[n].written) = attempts[n].updates
          /\ \A i \in 1..Len(attempts[n].rows_start) :
                /\ Len(attempts[n].rows_end[i]) = Len(attempts[n].rows_start[i])
                /\ \A j \in 1..Len(attempts[n].rows_start[i]) :
                      (j # main_df.column_mapping.time \/ i \notin attempts[n].written) =>
                          attempts[n].rows_end[i][j] = attempts[n].rows_start[i][j]
    /\ (attempts # <<>> /\ attempts[Len(attempts)].stage = "update") =>
          lookup = attempts[Len(attempts)].lookup

\* a pass over two records that filled one and left the other, which had
\* an empty time, as it was
C24_Witness ==
    \E n \in Passes :
        /\ Len(attempts[n].rows_start) = 2
        /\ Cardinality(attempts[n].written) = 1
        /\ Cardinality(Visited(n)) = 2
        /\ DOMAIN attempts[n].lookup # {}

====
